---- MODULE Spec2Model ----
(***************************************************************************)
(* A model of the reconciliation pipeline of pugnarehealth:                *)
(*   fdaLabelRecencyLookup and checkForLabelUpdates (fdaLookup.go),        *)
(*   product.Validate, savingsInfo.Validate, validateFDALabelLink          *)
(*   (main.go) and the enum type they use.                                 *)
(* Go strings are sequences of one-character strings, so that splitting,   *)
(* lower-casing, trimming, prefix tests and date parsing are computed.     *)
(***************************************************************************)
EXTENDS Integers, Sequences, FiniteSets, TLC

\* ------------------------------------------------------------------ bounds

MaxProducts == 2
MaxDocs == 3
MaxSavings == 2
MaxCallSeconds == 3
MaxTimerLag == 1
MaxEnumLen == 2
MaxOrderLen == 4

\* ----------------------------------------------------------------- strings

Upper == <<"A", "B", "C", "D", "E", "F", "G", "H", "I", "J", "K", "L", "M",
           "N", "O", "P", "Q", "R", "S", "T", "U", "V", "W", "X", "Y", "Z">>
Lower == <<"a", "b", "c", "d", "e", "f", "g", "h", "i", "j", "k", "l", "m",
           "n", "o", "p", "q", "r", "s", "t", "u", "v", "w", "x", "y", "z">>
Digits == <<"0", "1", "2", "3", "4", "5", "6", "7", "8", "9">>

\* unicode.IsSpace on the characters the inputs use
WhiteSpace == {" ", "\t", "\n", "\r", "\f"}

LowerChar(c) ==
    IF \E i \in 1..26 : Upper[i] = c
    THEN Lower[CHOOSE i \in 1..26 : Upper[i] = c]
    ELSE c

\* strings.ToLower
ToLower(s) == [i \in 1..Len(s) |-> LowerChar(s[i])]

\* strings.HasPrefix
HasPrefix(s, prefix) ==
    /\ Len(s) >= Len(prefix)
    /\ SubSeq(s, 1, Len(prefix)) = prefix

\* strings.HasSuffix
HasSuffix(s, suffix) ==
    /\ Len(s) >= Len(suffix)
    /\ SubSeq(s, Len(s) - Len(suffix) + 1, Len(s)) = suffix

\* strings.TrimSpace
TrimSpace(s) ==
    LET keep == {i \in 1..Len(s) : s[i] \notin WhiteSpace}
    IN  IF keep = {} THEN <<>>
        ELSE LET lo == CHOOSE i \in keep : \A j \in keep : i <= j
                 hi == CHOOSE i \in keep : \A j \in keep : j <= i
             IN  SubSeq(s, lo, hi)

\* strings.Split(s, " ")[0]: the text before the first single space
SplitFirst(s) ==
    LET sp == {i \in 1..Len(s) : s[i] = " "}
    IN  IF sp = {} THEN s
        ELSE SubSeq(s, 1, (CHOOSE i \in sp : \A j \in sp : i <= j) - 1)

IsDigit(c) == \E i \in 1..10 : Digits[i] = c

DigitVal(c) == (CHOOSE i \in 1..10 : Digits[i] = c) - 1

AllDigits(s) == \A i \in 1..Len(s) : IsDigit(s[i])

RECURSIVE Atoi(_)
Atoi(s) == IF s = <<>> THEN 0
           ELSE 10 * Atoi(SubSeq(s, 1, Len(s) - 1)) + DigitVal(s[Len(s)])

\* ------------------------------------------------------------------- dates

IsLeap(y) == y % 4 = 0 /\ (y % 100 # 0 \/ y % 400 = 0)

DaysIn(m, y) ==
    IF m = 2 THEN (IF IsLeap(y) THEN 29 ELSE 28)
    ELSE IF m \in {4, 6, 9, 11} THEN 30 ELSE 31

\* A time.Time holding a calendar date at 00:00 UTC, as a number that orders
\* dates the way time.Time.After orders the instants.
DateKey(y, m, d) == (y * 12 + (m - 1)) * 31 + (d - 1)

\* time.Time{}: January 1, year 1
ZeroTime == DateKey(1, 1, 1)

IsZero(t) == t = ZeroTime

After(t, u) == t > u

MakeDate(ys, ms, ds) ==
    IF ~(AllDigits(ys) /\ AllDigits(ms) /\ AllDigits(ds))
    THEN [ok |-> FALSE, t |-> ZeroTime]
    ELSE LET y == Atoi(ys)
             m == Atoi(ms)
             d == Atoi(ds)
         IN  IF m < 1 \/ m > 12 \/ d < 1 \/ d > DaysIn(m, y)
             THEN [ok |-> FALSE, t |-> ZeroTime]
             ELSE [ok |-> TRUE, t |-> DateKey(y, m, d)]

\* time.Parse("20060102", s)
ParseCompactDate(s) ==
    IF Len(s) # 8 THEN [ok |-> FALSE, t |-> ZeroTime]
    ELSE MakeDate(SubSeq(s, 1, 4), SubSeq(s, 5, 6), SubSeq(s, 7, 8))

\* time.Parse("2006-01-02", s)
ParseDashDate(s) ==
    IF Len(s) # 10 \/ s[5] # "-" \/ s[8] # "-" THEN [ok |-> FALSE, t |-> ZeroTime]
    ELSE MakeDate(SubSeq(s, 1, 4), SubSeq(s, 6, 7), SubSeq(s, 9, 10))

\* ------------------------------------------------- string values of the code

S_AutomaticApplicator ==
    <<"A", "u", "t", "o", "m", "a", "t", "i", "c", " ", "A", "p", "p", "l", "i", "c", "a", "t", "o", "r">>
S_TubelessInsulinPump ==
    <<"T", "u", "b", "e", "l", "e", "s", "s", " ", "I", "n", "s", "u", "l", "i", "n", " ", "P", "u", "m", "p">>
S_OralTablet ==
    <<"O", "r", "a", "l", " ", "T", "a", "b", "l", "e", "t">>
S_SubcutaneousInjection ==
    <<"S", "u", "b", "c", "u", "t", "a", "n", "e", "o", "u", "s", " ", "I", "n", "j", "e", "c", "t", "i", "o", "n">>
S_CGM ==
    <<"C", "G", "M">>
S_SGLT2 ==
    <<"S", "G", "L", "T", "-", "2">>
S_GLP1 ==
    <<"G", "L", "P", "-", "1">>
S_DPP4 ==
    <<"D", "P", "P", "-", "4">>
S_InsulinDeliverySystem ==
    <<"I", "n", "s", "u", "l", "i", "n", " ", "D", "e", "l", "i", "v", "e", "r", "y", " ", "S", "y", "s", "t", "e", "m">>
S_Insulin ==
    <<"I", "n", "s", "u", "l", "i", "n">>
S_CopayDiscountCard ==
    <<"C", "o", "p", "a", "y", " ", "D", "i", "s", "c", "o", "u", "n", "t", " ", "C", "a", "r", "d">>
S_PatientAssistanceProgram ==
    <<"P", "a", "t", "i", "e", "n", "t", " ", "A", "s", "s", "i", "s", "t", "a", "n", "c", "e", " ", "P", "r", "o", "g", "r", "a", "m">>
S_MedicarePrescriptionPaymentPlan ==
    <<"M", "e", "d", "i", "c", "a", "r", "e", " ", "P", "r", "e", "s", "c", "r", "i", "p", "t", "i", "o", "n", " ", "P", "a", "y", "m", "e", "n", "t", " ", "P", "l", "a", "n">>
S_FreeTrialOffer ==
    <<"F", "r", "e", "e", " ", "T", "r", "i", "a", "l", " ", "O", "f", "f", "e", "r">>

\* ---------------------------------------------------------------- inputs

BrandOz == <<"O", "z">>
BrandJa == <<"J", "a">>
LineOZpen == <<"O", "Z", " ", "p", "e", "n">>
LineOz == <<"O", "z">>
LineOzPen == <<"o", "z", " ", "p", "e", "n">>
LineJaTab == <<"J", "a", " ", "t", "a", "b">>
LineOzxPen == <<"O", "z", "x", " ", "p", "e", "n">>
Date20231201 == <<"2", "0", "2", "3", "1", "2", "0", "1">>
Date20240101 == <<"2", "0", "2", "4", "0", "1", "0", "1">>
Date20240615 == <<"2", "0", "2", "4", "0", "6", "1", "5">>
Date00010101 == <<"0", "0", "0", "1", "0", "1", "0", "1">>
Date00001231 == <<"0", "0", "0", "0", "1", "2", "3", "1">>
LineOzTabPen == <<"O", "z", "\t", "p", "e", "n">>
Dash20240101 == <<"2", "0", "2", "4", "-", "0", "1", "-", "0", "1">>
Dash20240615 == <<"2", "0", "2", "4", "-", "0", "6", "-", "1", "5">>

\* a savings entry that passes savingsInfo.Validate
GoodSavings ==
    [Type |-> S_CopayDiscountCard, Description |-> <<"c", "a", "r", "d">>,
     Phone |-> <<>>, Link |-> <<>>]

\* a product every rule of product.Validate accepts
BaseProduct ==
    [IngredientName |-> <<"s", "e", "m", "a">>, BrandName |-> BrandOz,
     MedicineType |-> S_GLP1, AdminRoute |-> S_SubcutaneousInjection,
     DoseFrequency |-> <<"w", "k">>, Savings |-> <<GoodSavings>>,
     FDALabelFile |-> <<>>, FDALabelUpdated |-> Dash20240101,
     FDALabelNeedsUpdate |-> FALSE, ColorClass |-> <<>>, ListPosition |-> 0]

Doc(elements, effective) ==
    [SplProductDataElements |-> elements, EffectiveTime |-> effective]

\* the documents the upstream index can return in the lookup specification
DocPool ==
    { Doc(<<LineOZpen>>, Date20231201),
      Doc(<<LineOz>>, Date20240101),
      Doc(<<LineOzPen, LineJaTab>>, Date20240615),
      Doc(<<LineJaTab>>, Date20240615),
      Doc(<<LineOzxPen>>, Date20240615),
      Doc(<<>>, Date20240615),
      Doc(<<LineOZpen>>, Dash20240615),
      Doc(<<LineJaTab>>, Date00010101) }

SeqsUpTo(S, n) == UNION {[1..k -> S] : k \in 0..n}

\* the response bodies a reconciliation pass is run against
ReconBodies ==
    { <<>>,
      <<Doc(<<LineOZpen>>, Date20231201)>>,
      <<Doc(<<LineOz>>, Date20240101)>>,
      <<Doc(<<LineOzPen>>, Date20240615)>>,
      <<Doc(<<LineJaTab>>, Date20240615)>>,
      <<Doc(<<LineOzxPen>>, Date20240615)>>,
      <<Doc(<<LineOzTabPen>>, Date20240615)>>,
      <<Doc(<<LineOz>>, Date00010101)>>,
      <<Doc(<<LineOz>>, Date00001231)>>,
      <<Doc(<<LineOz>>, Date00010101), Doc(<<LineOzPen>>, Date20240615)>> }

\* every response body of distinct documents of DocPool, in every order
IndexBodies ==
    { b \in SeqsUpTo(DocPool, MaxDocs) :
        \A i, j \in 1..Len(b) : i # j => b[i] # b[j] }

\* the response bodies the pacing of a batch is run against
PacingBodies ==
    { <<>>,
      <<Doc(<<LineOzPen, LineJaTab>>, Date20240615)>>,
      <<Doc(<<LineJaTab>>, Date20240615)>> }

\* the response bodies the named upstream can serve
Bodies(u) ==
    CASE u = "index" -> IndexBodies
      [] u = "recon" -> ReconBodies
      [] u = "pacing" -> PacingBodies

\* what one upstream call can come back with
ResponseKinds == {"ok", "transportError", "non200", "badBody", "closeError"}

NoResponse == [kind |-> "none", brandName |-> <<>>, Results |-> <<>>]

\* ------------------------------------------------------------------- state

VARIABLES
    products,        \* the collection checkForLabelUpdates annotates in place
    productsIn,      \* the collection as it was passed in
    pc,              \* position in checkForLabelUpdates / fdaLabelRecencyLookup
    brandNames,      \* the lookup batch
    idx,             \* index in brandNames of the brand being looked up
    results,         \* fdaLabelRecencyLookup's map under construction
    recencyResults,  \* what fdaLabelRecencyLookup returned: [isNil, m]
    lookupErr,       \* the error fdaLabelRecencyLookup returned
    checkErr,        \* the error checkForLabelUpdates returned
    pIdx,            \* index in products of the product being annotated
    tokens,          \* limiter: tokens held, in seconds of refill
    last,            \* limiter: time of the last reservation
    timeToAct,       \* limiter: when the current reservation may act
    now,             \* wall clock, in seconds
    batchStart,      \* wall clock when the lookup batch began
    admitTimes,      \* timeToAct of every reservation of the batch
    callTimes,       \* wall clock at which every upstream call was issued
    fdaLabel,        \* the response decoded in the current iteration
    upstream,        \* which upstream the calls go to: see Bodies
    latencies,       \* the durations an upstream call can take
    timerLags,       \* how late the limiter's timer can fire
    callerCancelled, \* the caller has asked for the pass to be abandoned
    cancelCalls      \* calls issued when the caller asked during a wait, or -1

cvars == <<products, productsIn, pc, brandNames, idx, results, recencyResults,
          lookupErr, checkErr, pIdx, tokens, last, timeToAct, now, batchStart,
          admitTimes, callTimes, fdaLabel, upstream, latencies, timerLags,
          callerCancelled, cancelCalls>>

VARIABLES
    subject,    \* the product product.Validate was called on
    wallDate,   \* the calendar day of time.Now()
    vpc,        \* position in product.Validate
    sIdx,       \* index in Savings of the entry being validated
    verdict,    \* what the validation ended with: [rule, entry, how]
    enumErr,    \* the enum error the failure carries: [isNil, value, allowed]
    firstRun,   \* the validation run before this one: [ran, verdict, wallDate]
    evaluated   \* the rules evaluated so far, in order: <<rule, entry>>

vvars == <<subject, wallDate, vpc, sIdx, verdict, enumErr, firstRun, evaluated>>

VARIABLES
    enumValues,   \* the enumeration *e a method of enum is called on
    enumValuesIn, \* the enumeration as it was before the call
    enumArg,      \* the value passed to the method
    epc,          \* which method has returned, or "call"
    enumRet       \* what the method returned

evars == <<enumValues, enumValuesIn, enumArg, epc, enumRet>>

VARIABLES
    mpc,             \* where main is, "off" when main is not running
    skipUpdateCheck, \* the skip-update-check flag
    vIdx,            \* the index of the validation loop of main
    verdicts,        \* what p.Validate came to, for each product validated
    sortedProducts,  \* the collection in display order
    rendered         \* whether renderIndex was called, and on what

mvars == <<mpc, skipUpdateCheck, vIdx, verdicts, sortedProducts, rendered>>

vars == <<cvars, vvars, evars, mvars>>

\* ------------------------------------------------------------ rate limiter

rateLimitSeconds == 2

\* the burst of rate.NewLimiter(rate.Every(rateLimitSeconds*time.Second), 1)
LimiterBurst == 1

\* Limiter.advance: the tokens held at time t, never more than the burst
LimiterAdvance(t) ==
    LET elapsed == IF t < last THEN 0 ELSE t - last
        tk == tokens + elapsed
    IN  IF tk > LimiterBurst * rateLimitSeconds
        THEN LimiterBurst * rateLimitSeconds ELSE tk

\* LimiterReserve granting the token at once, whatever the bucket holds
LimiterReserveNoWait(t) ==
    [tokens |-> LimiterAdvance(t) - rateLimitSeconds, wait |-> 0]

\* Limiter.reserveN(t, 1): the tokens left and the wait it imposes
LimiterReserve(t) ==
    LET tk == LimiterAdvance(t) - rateLimitSeconds
    IN  [tokens |-> tk, wait |-> IF tk < 0 THEN 0 - tk ELSE 0]

\* WaitContext being a context the caller cancels
WaitContextOfCaller == "caller"

\* the context handed to l.Wait: context.Background()
WaitContext == "background"

\* ctx.Done() is closed
Done(ctx) == IF ctx = "background" THEN FALSE ELSE callerCancelled

\* ------------------------------------------------------------------ matcher

\* MatchFrom keeping the date of the last matching document, not the latest
RECURSIVE MatchFromLastWins(_, _, _, _)
MatchFromLastWins(brandName, Results, k, lastChecked) ==
    IF k > Len(Results) THEN [err |-> "nil", lastChecked |-> lastChecked]
    ELSE LET result == Results[k]
         IN  IF Len(result.SplProductDataElements) = 0
             THEN MatchFromLastWins(brandName, Results, k + 1, lastChecked)
             ELSE IF ToLower(SplitFirst(result.SplProductDataElements[1]))
                     # ToLower(brandName)
             THEN MatchFromLastWins(brandName, Results, k + 1, lastChecked)
             ELSE LET effectiveTime == ParseCompactDate(result.EffectiveTime)
                  IN  IF ~effectiveTime.ok
                      THEN [err |-> "parseEffectiveTime", lastChecked |-> lastChecked]
                      ELSE MatchFromLastWins(brandName, Results, k + 1, effectiveTime.t)

\* the loop with a document matching when its first line begins with the brand
RECURSIVE MatchFromPrefix(_, _, _, _)
MatchFromPrefix(brandName, Results, k, lastChecked) ==
    IF k > Len(Results) THEN [err |-> "nil", lastChecked |-> lastChecked]
    ELSE LET result == Results[k]
         IN  IF Len(result.SplProductDataElements) = 0
             THEN MatchFromPrefix(brandName, Results, k + 1, lastChecked)
             ELSE IF ~HasPrefix(ToLower(result.SplProductDataElements[1]),
                                ToLower(brandName))
             THEN MatchFromPrefix(brandName, Results, k + 1, lastChecked)
             ELSE LET effectiveTime == ParseCompactDate(result.EffectiveTime)
                  IN  IF ~effectiveTime.ok
                      THEN [err |-> "parseEffectiveTime", lastChecked |-> lastChecked]
                      ELSE IF After(effectiveTime.t, lastChecked)
                      THEN MatchFromPrefix(brandName, Results, k + 1, effectiveTime.t)
                      ELSE MatchFromPrefix(brandName, Results, k + 1, lastChecked)
\* the loop ending at the first document without data elements
RECURSIVE MatchFromStopAtEmpty(_, _, _, _)
MatchFromStopAtEmpty(brandName, Results, k, lastChecked) ==
    IF k > Len(Results) THEN [err |-> "nil", lastChecked |-> lastChecked]
    ELSE LET result == Results[k]
         IN  IF Len(result.SplProductDataElements) = 0
             THEN [err |-> "nil", lastChecked |-> lastChecked]
             ELSE IF ToLower(SplitFirst(result.SplProductDataElements[1]))
                     # ToLower(brandName)
             THEN MatchFromStopAtEmpty(brandName, Results, k + 1, lastChecked)
             ELSE LET effectiveTime == ParseCompactDate(result.EffectiveTime)
                  IN  IF ~effectiveTime.ok
                      THEN [err |-> "parseEffectiveTime", lastChecked |-> lastChecked]
                      ELSE IF After(effectiveTime.t, lastChecked)
                      THEN MatchFromStopAtEmpty(brandName, Results, k + 1,
                                                effectiveTime.t)
                      ELSE MatchFromStopAtEmpty(brandName, Results, k + 1,
                                                lastChecked)

\* the loop passing over a matching document whose date does not parse
RECURSIVE MatchFromSkipBadDate(_, _, _, _)
MatchFromSkipBadDate(brandName, Results, k, lastChecked) ==
    IF k > Len(Results) THEN [err |-> "nil", lastChecked |-> lastChecked]
    ELSE LET result == Results[k]
         IN  IF Len(result.SplProductDataElements) = 0
             THEN MatchFromSkipBadDate(brandName, Results, k + 1, lastChecked)
             ELSE IF ToLower(SplitFirst(result.SplProductDataElements[1]))
                     # ToLower(brandName)
             THEN MatchFromSkipBadDate(brandName, Results, k + 1, lastChecked)
             ELSE LET effectiveTime == ParseCompactDate(result.EffectiveTime)
                  IN  IF ~effectiveTime.ok
                      THEN MatchFromSkipBadDate(brandName, Results, k + 1,
                                                lastChecked)
                      ELSE IF After(effectiveTime.t, lastChecked)
                      THEN MatchFromSkipBadDate(brandName, Results, k + 1,
                                                effectiveTime.t)
                      ELSE MatchFromSkipBadDate(brandName, Results, k + 1,
                                                lastChecked)

\* the loop over fdaLabel.Results: lastChecked after the documents from k on
RECURSIVE MatchFrom(_, _, _, _)
MatchFrom(brandName, Results, k, lastChecked) ==
    IF k > Len(Results) THEN [err |-> "nil", lastChecked |-> lastChecked]
    ELSE LET result == Results[k]
         IN  IF Len(result.SplProductDataElements) = 0
             THEN MatchFrom(brandName, Results, k + 1, lastChecked)
             ELSE LET dataElementsFirstWord ==
                          SplitFirst(result.SplProductDataElements[1])
                      drugNameLower == ToLower(dataElementsFirstWord)
                      brandNameLower == ToLower(brandName)
                  IN  IF drugNameLower # brandNameLower
                      THEN MatchFrom(brandName, Results, k + 1, lastChecked)
                      ELSE LET effectiveTime == ParseCompactDate(result.EffectiveTime)
                           IN  IF ~effectiveTime.ok
                               THEN [err |-> "parseEffectiveTime",
                                     lastChecked |-> lastChecked]
                               ELSE IF After(effectiveTime.t, lastChecked)
                               THEN MatchFrom(brandName, Results, k + 1, effectiveTime.t)
                               ELSE MatchFrom(brandName, Results, k + 1, lastChecked)

\* LookupOne taking the first document's date when no document matches
LookupOneNoUnmatched(brandName, response) ==
    IF response.kind = "transportError" THEN [err |-> "request", t |-> ZeroTime]
    ELSE IF response.kind = "non200" THEN [err |-> "non200", t |-> ZeroTime]
    ELSE IF response.kind = "badBody" THEN [err |-> "decode", t |-> ZeroTime]
    ELSE IF response.kind = "closeError" THEN [err |-> "close", t |-> ZeroTime]
    ELSE IF Len(response.Results) = 0 THEN [err |-> "noResults", t |-> ZeroTime]
    ELSE LET m == MatchFrom(brandName, response.Results, 1, ZeroTime)
         IN  IF m.err # "nil" THEN [err |-> m.err, t |-> ZeroTime]
             ELSE [err |-> "nil", t |-> m.lastChecked]
\* LookupOne telling a matched brand by the match itself, not by the date
LookupOneMatchedFlag(brandName, response) ==
    IF response.kind = "transportError" THEN [err |-> "request", t |-> ZeroTime]
    ELSE IF response.kind = "non200" THEN [err |-> "non200", t |-> ZeroTime]
    ELSE IF response.kind = "badBody" THEN [err |-> "decode", t |-> ZeroTime]
    ELSE IF response.kind = "closeError" THEN [err |-> "close", t |-> ZeroTime]
    ELSE IF Len(response.Results) = 0 THEN [err |-> "noResults", t |-> ZeroTime]
    ELSE LET m == MatchFrom(brandName, response.Results, 1, ZeroTime)
             matched == \E k \in 1..Len(response.Results) :
                 /\ Len(response.Results[k].SplProductDataElements) # 0
                 /\ ToLower(SplitFirst(response.Results[k].SplProductDataElements[1]))
                       = ToLower(brandName)
         IN  IF m.err # "nil" THEN [err |-> m.err, t |-> ZeroTime]
             ELSE IF ~matched THEN [err |-> "noMatch", t |-> ZeroTime]
             ELSE [err |-> "nil", t |-> m.lastChecked]

\* one iteration of fdaLabelRecencyLookup after the wait, given the response
LookupOne(brandName, response) ==
    IF response.kind = "transportError" THEN [err |-> "request", t |-> ZeroTime]
    ELSE IF response.kind = "non200" THEN [err |-> "non200", t |-> ZeroTime]
    ELSE IF response.kind = "badBody" THEN [err |-> "decode", t |-> ZeroTime]
    ELSE IF response.kind = "closeError" THEN [err |-> "close", t |-> ZeroTime]
    ELSE IF Len(response.Results) = 0 THEN [err |-> "noResults", t |-> ZeroTime]
    ELSE LET m == MatchFrom(brandName, response.Results, 1, ZeroTime)
         IN  IF m.err # "nil" THEN [err |-> m.err, t |-> ZeroTime]
             ELSE IF IsZero(m.lastChecked) THEN [err |-> "noMatch", t |-> ZeroTime]
             ELSE [err |-> "nil", t |-> m.lastChecked]

\* ------------------------------------------------------------- orchestrator

ExcludedRoute(p) ==
    p.AdminRoute = S_AutomaticApplicator \/ p.AdminRoute = S_TubelessInsulinPump

\* the brands of the eligible products, each brand once
EligibleBrandsOnce(ps) ==
    LET first(i) ==
            /\ ~ExcludedRoute(ps[i])
            /\ \A j \in 1..(i - 1) :
                 ExcludedRoute(ps[j]) \/ ps[j].BrandName # ps[i].BrandName
        f[i \in 0..Len(ps)] ==
            IF i = 0 THEN <<>>
            ELSE IF first(i) THEN Append(f[i - 1], ps[i].BrandName)
            ELSE f[i - 1]
    IN  f[Len(ps)]

\* the first loop of checkForLabelUpdates: the brands of the eligible products
RECURSIVE EligibleBrands(_)
EligibleBrands(ps) ==
    IF ps = <<>> THEN <<>>
    ELSE IF ExcludedRoute(Head(ps)) THEN EligibleBrands(Tail(ps))
    ELSE <<Head(ps).BrandName>> \o EligibleBrands(Tail(ps))

\* slices.Contains
Contains(s, v) == \E k \in 1..Len(s) : s[k] = v

NilMap == [isNil |-> TRUE, m |-> <<>>]

\* checkForLabelUpdates up to the first wait of fdaLabelRecencyLookup
CheckStart ==
    /\ pc = "start"
    /\ brandNames' = EligibleBrands(products)
    /\ results' = <<>>
    /\ tokens' = LimiterBurst * rateLimitSeconds
    /\ last' = now
    /\ batchStart' = now
    /\ idx' = 1
    /\ IF brandNames' # <<>>
       THEN /\ pc' = "wait"
            /\ UNCHANGED <<recencyResults, pIdx>>
       ELSE /\ recencyResults' = [isNil |-> FALSE, m |-> <<>>]
            /\ pIdx' = 1
            /\ pc' = IF products = <<>> THEN "done" ELSE "annotate"
    /\ UNCHANGED <<products, productsIn, lookupErr, checkErr, timeToAct, now,
                   admitTimes, callTimes, fdaLabel, upstream, latencies,
                   timerLags, callerCancelled, cancelCalls>>
    /\ UNCHANGED <<vvars, evars, mvars>>

\* LookupFails handing back the brands resolved so far
LookupFailsPartial(e) ==
    /\ lookupErr' = e
    /\ recencyResults' = [isNil |-> FALSE, m |-> results]
    /\ checkErr' = "lookup"
    /\ pc' = "done"
\* the failure of the lookup disregarded: the pass goes on to annotate with
\* the brands resolved so far
LookupFailsIgnored(e) ==
    /\ lookupErr' = e
    /\ recencyResults' = [isNil |-> FALSE, m |-> results]
    /\ checkErr' = "nil"
    /\ pc' = "annotate"

\* fdaLabelRecencyLookup returns an error and checkForLabelUpdates wraps it
LookupFails(e) ==
    /\ lookupErr' = e
    /\ recencyResults' = NilMap
    /\ checkErr' = "lookup"
    /\ pc' = "done"

\* l.Wait up to its timer: the reservation
LimiterWait ==
    /\ pc = "wait"
    /\ IF Done(WaitContext)
       THEN /\ LookupFails("wait")
            /\ UNCHANGED <<tokens, last, timeToAct, admitTimes>>
       ELSE LET r == LimiterReserve(now)
            IN  /\ tokens' = r.tokens
                /\ last' = now
                /\ timeToAct' = now + r.wait
                /\ admitTimes' = Append(admitTimes, now + r.wait)
                /\ pc' = IF r.wait = 0 THEN "request" ELSE "sleep"
                /\ UNCHANGED <<lookupErr, recencyResults, checkErr>>
    /\ fdaLabel' = IF Done(WaitContext) THEN fdaLabel ELSE NoResponse
    /\ UNCHANGED <<products, productsIn, brandNames, idx, results, pIdx, now,
                   batchStart, callTimes, upstream, latencies, timerLags,
                   callerCancelled, cancelCalls>>
    /\ UNCHANGED <<vvars, evars, mvars>>

\* l.Wait from its timer on: the timer fires, or the context is done
LimiterWake ==
    /\ pc = "sleep"
    /\ IF Done(WaitContext)
       THEN /\ LookupFails("wait")
            /\ UNCHANGED now
       ELSE /\ \E lag \in timerLags : now' = timeToAct + lag
            /\ pc' = "request"
            /\ UNCHANGED <<lookupErr, recencyResults, checkErr>>
    /\ UNCHANGED <<products, productsIn, brandNames, idx, results, pIdx, tokens,
                   last, timeToAct, batchStart, admitTimes, callTimes, fdaLabel,
                   upstream, latencies, timerLags, callerCancelled, cancelCalls>>
    /\ UNCHANGED <<vvars, evars, mvars>>
\* the entry written under the brand's lower-cased name
StoreLowerKey(known, brandName, lastChecked) ==
    (ToLower(brandName) :> lastChecked) @@ known

\* results[brandName] = lastChecked
Store(known, brandName, lastChecked) == (brandName :> lastChecked) @@ known

\* the rest of one iteration of fdaLabelRecencyLookup: the call, the decoding,
\* the matching, and the return when the batch is over
LookupBrand ==
    /\ pc = "request"
    /\ \E kind \in ResponseKinds, body \in Bodies(upstream), d \in latencies :
         LET brandName == brandNames[idx]
             response == [kind |-> kind, brandName |-> brandName,
                          Results |-> IF kind = "ok" THEN body ELSE <<>>]
             r == LookupOne(brandName, response)
         IN  /\ kind # "ok" => body = <<>>
             /\ fdaLabel' = response
             /\ callTimes' = Append(callTimes, now)
             /\ now' = now + d
             /\ IF r.err # "nil"
                THEN /\ LookupFails(r.err)
                     /\ UNCHANGED <<results, idx, pIdx>>
                ELSE /\ results' = Store(results, brandName, r.t)
                     /\ idx' = idx + 1
                     /\ IF idx = Len(brandNames)
                        THEN /\ recencyResults' = [isNil |-> FALSE, m |-> results']
                             /\ pIdx' = 1
                             /\ pc' = "annotate"
                        ELSE /\ pc' = "wait"
                             /\ UNCHANGED <<recencyResults, pIdx>>
                     /\ UNCHANGED <<lookupErr, checkErr>>
    /\ UNCHANGED <<products, productsIn, brandNames, tokens, last, timeToAct,
                   batchStart, admitTimes, upstream, latencies, timerLags,
                   callerCancelled, cancelCalls>>
    /\ UNCHANGED <<vvars, evars, mvars>>

\* AnnotateOne flagging a label as old as the recorded date
AnnotateOneNotBefore(p, known) ==
    IF ~Contains(brandNames, p.BrandName) THEN [err |-> "nil", flag |-> p.FDALabelNeedsUpdate]
    ELSE IF p.BrandName \notin DOMAIN known
    THEN [err |-> "noRecency", flag |-> p.FDALabelNeedsUpdate]
    ELSE LET lastUpdated == ParseDashDate(p.FDALabelUpdated)
         IN  IF ~lastUpdated.ok
             THEN [err |-> "parseUpdated", flag |-> p.FDALabelNeedsUpdate]
             ELSE IF ~After(lastUpdated.t, known[p.BrandName])
             THEN [err |-> "nil", flag |-> TRUE]
             ELSE [err |-> "nil", flag |-> p.FDALabelNeedsUpdate]

\* AnnotateOne skipping a product whose recorded date does not parse
AnnotateOneSkipBadDate(p, known) ==
    IF ~Contains(brandNames, p.BrandName) THEN [err |-> "nil", flag |-> p.FDALabelNeedsUpdate]
    ELSE IF p.BrandName \notin DOMAIN known
    THEN [err |-> "noRecency", flag |-> p.FDALabelNeedsUpdate]
    ELSE LET lastUpdated == ParseDashDate(p.FDALabelUpdated)
         IN  IF lastUpdated.ok /\ After(known[p.BrandName], lastUpdated.t)
             THEN [err |-> "nil", flag |-> TRUE]
             ELSE [err |-> "nil", flag |-> p.FDALabelNeedsUpdate]
\* AnnotateOne assigning the outcome of the comparison to the flag
AnnotateOneAssigns(p, known) ==
    IF ~Contains(brandNames, p.BrandName) THEN [err |-> "nil", flag |-> p.FDALabelNeedsUpdate]
    ELSE IF p.BrandName \notin DOMAIN known
    THEN [err |-> "noRecency", flag |-> p.FDALabelNeedsUpdate]
    ELSE LET recency == known[p.BrandName]
             lastUpdated == ParseDashDate(p.FDALabelUpdated)
         IN  IF ~lastUpdated.ok
             THEN [err |-> "parseUpdated", flag |-> p.FDALabelNeedsUpdate]
             ELSE [err |-> "nil", flag |-> After(recency, lastUpdated.t)]

\* one iteration of the second loop of checkForLabelUpdates
AnnotateOne(p, known) ==
    IF ~Contains(brandNames, p.BrandName) THEN [err |-> "nil", flag |-> p.FDALabelNeedsUpdate]
    ELSE IF p.BrandName \notin DOMAIN known
    THEN [err |-> "noRecency", flag |-> p.FDALabelNeedsUpdate]
    ELSE LET recency == known[p.BrandName]
             lastUpdated == ParseDashDate(p.FDALabelUpdated)
         IN  IF ~lastUpdated.ok
             THEN [err |-> "parseUpdated", flag |-> p.FDALabelNeedsUpdate]
             ELSE IF After(recency, lastUpdated.t)
             THEN [err |-> "nil", flag |-> TRUE]
             ELSE [err |-> "nil", flag |-> p.FDALabelNeedsUpdate]

Annotate ==
    /\ pc = "annotate"
    /\ LET a == AnnotateOne(products[pIdx], recencyResults.m)
       IN  IF a.err # "nil"
           THEN /\ checkErr' = a.err
                /\ pc' = "done"
                /\ UNCHANGED <<products, pIdx>>
           ELSE /\ products' = [products EXCEPT ![pIdx].FDALabelNeedsUpdate = a.flag]
                /\ pIdx' = pIdx + 1
                /\ pc' = IF pIdx = Len(products) THEN "done" ELSE "annotate"
                /\ UNCHANGED checkErr
    /\ UNCHANGED <<productsIn, brandNames, idx, results, recencyResults,
                   lookupErr, tokens, last, timeToAct, now, batchStart,
                   admitTimes, callTimes, fdaLabel, upstream, latencies,
                   timerLags, callerCancelled, cancelCalls>>
    /\ UNCHANGED <<vvars, evars, mvars>>

\* the caller asks for the pass to be abandoned while the lookup is running
CallerCancel ==
    /\ pc \in {"wait", "sleep", "request"}
    /\ ~callerCancelled
    /\ callerCancelled' = TRUE
    /\ cancelCalls' = IF pc = "sleep" THEN Len(callTimes) ELSE -1
    /\ UNCHANGED <<products, productsIn, pc, brandNames, idx, results,
                   recencyResults, lookupErr, checkErr, pIdx, tokens, last,
                   timeToAct, now, batchStart, admitTimes, callTimes, fdaLabel,
                   upstream, latencies, timerLags>>
    /\ UNCHANGED <<vvars, evars, mvars>>

\* -------------------------------------------------------------- enumeration

\* a check for validity that takes the beginning of a member for the member
ValidPartial(e, value) == \E k \in 1..Len(e) : HasPrefix(e[k], value)

\* enum.Valid: a case-sensitive check for validity
Valid(e, value) == \E k \in 1..Len(e) : e[k] = value

\* enum.ValidCI: a case-insensitive check for validity
ValidCI(e, value) == \E k \in 1..Len(e) : ToLower(e[k]) = ToLower(value)

\* a nil error
NoEnumError == [isNil |-> TRUE, value |-> <<>>, allowed |-> <<>>]

\* CheckError on top of the case-insensitive check
CheckErrorIgnoringCase(e, value) ==
    IF ~ValidCI(e, value)
    THEN [isNil |-> FALSE, value |-> value, allowed |-> e]
    ELSE NoEnumError

\* enum.CheckError: nil, or ErrInvalidEnumValue with the value and the enum
CheckError(e, value) ==
    IF ~Valid(e, value)
    THEN [isNil |-> FALSE, value |-> value, allowed |-> e]
    ELSE NoEnumError

\* a call of e.Valid(value)
EnumValid ==
    /\ epc = "call"
    /\ enumRet' = Valid(enumValues, enumArg)
    /\ epc' = "Valid"
    /\ UNCHANGED <<enumValues, enumValuesIn, enumArg>>
    /\ UNCHANGED <<cvars, vvars, mvars>>

\* a call of e.ValidCI(value)
EnumValidCI ==
    /\ epc = "call"
    /\ enumRet' = ValidCI(enumValues, enumArg)
    /\ epc' = "ValidCI"
    /\ UNCHANGED <<enumValues, enumValuesIn, enumArg>>
    /\ UNCHANGED <<cvars, vvars, mvars>>

\* a call of e.CheckError(value)
EnumCheckError ==
    /\ epc = "call"
    /\ enumRet' = CheckError(enumValues, enumArg)
    /\ epc' = "CheckError"
    /\ UNCHANGED <<enumValues, enumValuesIn, enumArg>>
    /\ UNCHANGED <<cvars, vvars, mvars>>

medTypeEnum ==
    <<S_CGM, S_SGLT2, S_GLP1, S_DPP4, S_InsulinDeliverySystem, S_Insulin>>

adminRouteEnum ==
    <<S_OralTablet, S_SubcutaneousInjection, S_AutomaticApplicator,
      S_TubelessInsulinPump>>

savingsTypeEnum ==
    <<S_CopayDiscountCard, S_PatientAssistanceProgram,
      S_MedicarePrescriptionPaymentPlan, S_FreeTrialOffer>>

\* ------------------------------------------------------------------- URLs

Ascii ==
   <<
      " ", "!", "\"", "#", "$", "%", "&", "'", "(", ")", "*", "+", ",", "-", ".", "/",
      "0", "1", "2", "3", "4", "5", "6", "7", "8", "9", ":", ";", "<", "=", ">", "?",
      "@", "A", "B", "C", "D", "E", "F", "G", "H", "I", "J", "K", "L", "M", "N", "O",
      "P", "Q", "R", "S", "T", "U", "V", "W", "X", "Y", "Z", "[", "\\", "]", "^", "_",
      "<backtick>", "a", "b", "c", "d", "e", "f", "g", "h", "i", "j", "k", "l", "m", "n", "o",
      "p", "q", "r", "s", "t", "u", "v", "w", "x", "y", "z", "{", "|", "}", "~" >>

HexDigits == <<"0", "1", "2", "3", "4", "5", "6", "7", "8", "9",
               "a", "b", "c", "d", "e", "f">>

IsHex(c) == \E i \in 1..16 : HexDigits[i] = LowerChar(c)

HexVal(c) == (CHOOSE i \in 1..16 : HexDigits[i] = LowerChar(c)) - 1

\* the character with the given byte value
ByteChar(b) == IF b >= 32 /\ b <= 126 THEN Ascii[b - 31] ELSE "<byte>"

IsLetter(c) == \E i \in 1..26 : Upper[i] = c \/ Lower[i] = c

\* url.stringContainsCTLByte, on the characters the inputs use
ContainsCTL(s) == \E i \in 1..Len(s) : s[i] \in {"\t", "\n", "\r", "\f"}

\* the first index of c in s, or 0
IndexOf(s, c) ==
    IF \E i \in 1..Len(s) : s[i] = c
    THEN CHOOSE i \in 1..Len(s) : s[i] = c /\ \A j \in 1..(i - 1) : s[j] # c
    ELSE 0

\* url.getScheme
GetScheme(rawURL) ==
    LET stop == {i \in 1..Len(rawURL) :
                    ~(\/ IsLetter(rawURL[i])
                      \/ (i > 1 /\ (IsDigit(rawURL[i]) \/ rawURL[i] \in {"+", "-", "."})))}
    IN  IF stop = {} THEN [ok |-> TRUE, scheme |-> <<>>, rest |-> rawURL]
        ELSE LET i == CHOOSE i \in stop : \A j \in stop : i <= j
             IN  IF rawURL[i] # ":" THEN [ok |-> TRUE, scheme |-> <<>>, rest |-> rawURL]
                 ELSE IF i = 1 THEN [ok |-> FALSE, scheme |-> <<>>, rest |-> <<>>]
                 ELSE [ok |-> TRUE, scheme |-> SubSeq(rawURL, 1, i - 1),
                       rest |-> SubSeq(rawURL, i + 1, Len(rawURL))]

\* url.unescape(s, encodePath)
RECURSIVE Unescape(_)
Unescape(s) ==
    IF s = <<>> THEN [ok |-> TRUE, s |-> <<>>]
    ELSE IF Head(s) = "%"
    THEN IF Len(s) < 3 \/ ~IsHex(s[2]) \/ ~IsHex(s[3]) THEN [ok |-> FALSE, s |-> <<>>]
         ELSE LET r == Unescape(SubSeq(s, 4, Len(s)))
              IN  [ok |-> r.ok,
                   s |-> <<ByteChar(16 * HexVal(s[2]) + HexVal(s[3]))>> \o r.s]
    ELSE LET r == Unescape(Tail(s))
         IN  [ok |-> r.ok, s |-> <<Head(s)>> \o r.s]

\* url.ParseRequestURI, for hosts of letters, digits, dots and hyphens: the
\* error, and the Path of the URL
ParseRequestURI(rawURL) ==
    LET bad == [ok |-> FALSE, Path |-> <<>>]
        s == GetScheme(rawURL)
    IN  IF rawURL = <<>> \/ ContainsCTL(rawURL) \/ ~s.ok THEN bad
        ELSE LET q == IndexOf(s.rest, "?")
                 rest == IF q = 0 THEN s.rest ELSE SubSeq(s.rest, 1, q - 1)
             IN  IF ~HasPrefix(rest, <<"/">>)
                 THEN (IF s.scheme # <<>> THEN [ok |-> TRUE, Path |-> <<>>] ELSE bad)
                 ELSE LET afterHost ==
                              IF s.scheme # <<>> /\ HasPrefix(rest, <<"/", "/">>)
                              THEN LET r2 == SubSeq(rest, 3, Len(rest))
                                       i == IndexOf(r2, "/")
                                   IN  IF i = 0 THEN <<>> ELSE SubSeq(r2, i, Len(r2))
                              ELSE rest
                          path == Unescape(afterHost)
                      IN  IF ~path.ok THEN bad ELSE [ok |-> TRUE, Path |-> path.s]

\* regexp `^1-\d{3}-\d{3}-\d{4}$`
PhoneMatches(s) ==
    /\ Len(s) = 14
    /\ s[1] = "1"
    /\ \A i \in {2, 6, 10} : s[i] = "-"
    /\ \A i \in {3, 4, 5, 7, 8, 9, 11, 12, 13, 14} : IsDigit(s[i])

\* -------------------------------------------------------------- validation

S_httpScheme ==
    <<"h", "t", "t", "p", ":", "/", "/">>
S_httpsScheme ==
    <<"h", "t", "t", "p", "s", ":", "/", "/">>
S_dotPdf ==
    <<".", "p", "d", "f">>
fdaLabelRepoPrefix ==
    <<"h", "t", "t", "p", "s", ":", "/", "/", "w", "w", "w", ".", "a", "c", "c", "e", "s", "s", "d", "a", "t", "a", ".", "f", "d", "a", ".", "g", "o", "v", "/", "d", "r", "u", "g", "s", "a", "t", "f", "d", "a", "_", "d", "o", "c", "s", "/", "l", "a", "b", "e", "l", "/">>


\* the required fields without the dose frequency
MissingRequiredNoDose(q) ==
    Contains(<<q.BrandName, q.IngredientName>>, <<>>)

\* the conditions of product.Validate, in the order of the code
MissingRequired(q) ==
    Contains(<<q.BrandName, q.IngredientName, q.DoseFrequency>>, <<>>)
SavingsEmpty(q) == Len(q.Savings) = 0
BadMedicineType(q) == ~CheckError(medTypeEnum, q.MedicineType).isNil
BadAdminRoute(q) == ~CheckError(adminRouteEnum, q.AdminRoute).isNil

\* the conditions of savingsInfo.Validate
BlankDescription(s) == TrimSpace(s.Description) = <<>>
BadPhone(s) == TrimSpace(s.Phone) # <<>> /\ ~PhoneMatches(s.Phone)
\* the link rule with "or" between the two prefixes
BadLinkEitherPrefix(s) ==
    /\ TrimSpace(s.Link) # <<>>
    /\ ~HasPrefix(s.Link, S_httpScheme) \/ ~HasPrefix(s.Link, S_httpsScheme)

BadLink(s) ==
    /\ TrimSpace(s.Link) # <<>>
    /\ ~HasPrefix(s.Link, S_httpScheme) /\ ~HasPrefix(s.Link, S_httpsScheme)
BadSavingsType(s) == ~CheckError(savingsTypeEnum, s.Type).isNil

\* the repository rule with no more than the scheme of the prefix
NotInLabelRepoSchemeOnly(q) == ~HasPrefix(q.FDALabelFile, S_httpsScheme)

\* the conditions of validateFDALabelLink
HasLabelLink(q) == TrimSpace(q.FDALabelFile) # <<>>
BadLabelDate(q) == ~ParseDashDate(q.FDALabelUpdated).ok
\* the future rule with the comparison the wrong way round
LabelDateInPast(q, today) == After(today, ParseDashDate(q.FDALabelUpdated).t)

LabelDateInFuture(q, today) == After(ParseDashDate(q.FDALabelUpdated).t, today)
NotInLabelRepo(q) == ~HasPrefix(q.FDALabelFile, fdaLabelRepoPrefix)
BadLabelURL(q) == ~ParseRequestURI(q.FDALabelFile).ok
NotAPdf(q) == ~HasSuffix(ToLower(ParseRequestURI(q.FDALabelFile).Path), S_dotPdf)

Check(rule, entry, bad, how) ==
    [rule |-> rule, entry |-> entry, bad |-> bad, how |-> how]

Passed == [rule |-> "none", entry |-> 0, how |-> "return"]

\* a run of if-statements that each leave the function: the first one whose
\* condition holds decides, and the ones after it are not reached
RunChecks(checks) ==
    LET bad == {i \in 1..Len(checks) : checks[i].bad}
        n == IF bad = {} THEN Len(checks)
             ELSE CHOOSE i \in bad : \A j \in bad : i <= j
    IN  [verdict |-> IF bad = {} THEN Passed
                     ELSE [rule |-> checks[n].rule, entry |-> checks[n].entry,
                           how |-> checks[n].how],
         evaluated |-> [i \in 1..n |-> <<checks[i].rule, checks[i].entry>>]]

\* the head of product.Validate with the closed-set rules ahead of the rest
HeadChecksClosedSetsFirst(q) ==
    << Check("medicineType", 0, BadMedicineType(q), "return"),
       Check("adminRoute", 0, BadAdminRoute(q), "return"),
       Check("required", 0, MissingRequired(q), "return"),
       Check("savingsEmpty", 0, SavingsEmpty(q), "return") >>

\* product.Validate up to the loop over the savings entries
HeadChecks(q) ==
    << Check("required", 0, MissingRequired(q), "return"),
       Check("savingsEmpty", 0, SavingsEmpty(q), "return"),
       Check("medicineType", 0, BadMedicineType(q), "return"),
       Check("adminRoute", 0, BadAdminRoute(q), "return") >>

\* savingsInfo.Validate: three of its rules panic and one exits the process
SavingsChecks(s, k) ==
    << Check("description", k, BlankDescription(s), "panic"),
       Check("phone", k, BadPhone(s), "panic"),
       Check("link", k, BadLink(s), "exit"),
       Check("savingsType", k, BadSavingsType(s), "panic") >>

\* validateFDALabelLink
LabelChecks(q, today) ==
    << Check("labelDate", 0, BadLabelDate(q), "return"),
       Check("labelFuture", 0, LabelDateInFuture(q, today), "return"),
       Check("labelRepo", 0, NotInLabelRepo(q), "return"),
       Check("labelURL", 0, BadLabelURL(q), "return"),
       Check("labelPdf", 0, NotAPdf(q), "return") >>

\* the enum error joined into the failure of verdict v on product q
EnumErrorOf(q, v) ==
    CASE v.rule = "medicineType" -> CheckError(medTypeEnum, q.MedicineType)
      [] v.rule = "adminRoute" -> CheckError(adminRouteEnum, q.AdminRoute)
      [] v.rule = "savingsType" ->
            CheckError(savingsTypeEnum, q.Savings[v.entry].Type)
      [] OTHER -> NoEnumError

\* the validation ends with the given outcome
ValidateEnds(r) ==
    /\ verdict' = r.verdict
    /\ enumErr' = EnumErrorOf(subject, r.verdict)
    /\ evaluated' = evaluated \o r.evaluated
    /\ vpc' = "done"

ValidateHead ==
    /\ vpc = "head"
    /\ LET r == RunChecks(HeadChecks(subject))
       IN  IF r.verdict # Passed
           THEN ValidateEnds(r) /\ UNCHANGED sIdx
           ELSE /\ evaluated' = evaluated \o r.evaluated
                /\ sIdx' = 1
                /\ vpc' = "savings"
                /\ UNCHANGED <<verdict, enumErr>>
    /\ UNCHANGED <<subject, wallDate, firstRun>>
    /\ UNCHANGED <<cvars, evars, mvars>>

\* one iteration of the loop over p.Savings
ValidateSavings ==
    /\ vpc = "savings"
    /\ LET r == RunChecks(SavingsChecks(subject.Savings[sIdx], sIdx))
       IN  IF r.verdict # Passed
           THEN ValidateEnds(r) /\ UNCHANGED sIdx
           ELSE /\ evaluated' = evaluated \o r.evaluated
                /\ sIdx' = sIdx + 1
                /\ vpc' = IF sIdx = Len(subject.Savings) THEN "label" ELSE "savings"
                /\ UNCHANGED <<verdict, enumErr>>
    /\ UNCHANGED <<subject, wallDate, firstRun>>
    /\ UNCHANGED <<cvars, evars, mvars>>

\* product.Validate from the FDA label link on
ValidateLabel ==
    /\ vpc = "label"
    /\ IF HasLabelLink(subject)
       THEN ValidateEnds(RunChecks(LabelChecks(subject, wallDate)))
       ELSE ValidateEnds([verdict |-> Passed, evaluated |-> <<>>])
    /\ UNCHANGED <<subject, wallDate, sIdx, firstRun>>
    /\ UNCHANGED <<cvars, evars, mvars>>

\* the days validation runs on: the first recorded date, and a day after the
\* last one
WallDates == {DateKey(2024, 1, 1), DateKey(2024, 7, 1)}

\* no validation has run before this one
NoRun == [ran |-> FALSE, verdict |-> Passed, wallDate |-> 0]

\* the program is run again on the same catalog, at the same time or later:
\* main validates the product a second time
Revalidate ==
    /\ vpc = "done"
    /\ ~firstRun.ran
    /\ firstRun' = [ran |-> TRUE, verdict |-> verdict, wallDate |-> wallDate]
    /\ \E w \in WallDates : w >= wallDate /\ wallDate' = w
    /\ vpc' = "head"
    /\ sIdx' = 1
    /\ verdict' = Passed
    /\ enumErr' = NoEnumError
    /\ evaluated' = <<>>
    /\ UNCHANGED subject
    /\ UNCHANGED <<cvars, evars, mvars>>
\* ------------------------------------------------------------------- main

NotRendered == [called |-> FALSE, Products |-> <<>>]

\* main carrying on after a failed reconciliation pass
AfterCheckLogsOnly(err) == "validate"

\* if err = checkForLabelUpdates(products); err != nil { os.Exit(1) }
AfterCheck(err) == IF err # "nil" THEN "exit" ELSE "validate"

\* main leaving out the validation as well when the flag is set
AfterFlagsSkipAll(skip) == IF skip THEN "order" ELSE "check"

\* if !skipUpdateCheck { checkForLabelUpdates(products) }
AfterFlags(skip) == IF skip THEN "validate" ELSE "check"

\* byListPosition.Less comparing the other way
LessDescending(a, b) == a.ListPosition > b.ListPosition

\* byListPosition.Less
Less(a, b) == a.ListPosition < b.ListPosition

\* what sort.Sort can leave in the slice: the elements in an order in which
\* none is Less than the one before it; sort.Sort is not stable, so elements
\* neither of which is Less than the other can come out in either order
SortOutcomes(s) ==
    IF s = <<>> THEN {<<>>}
    ELSE { t \in {[i \in 1..Len(s) |-> s[f[i]]] : f \in Permutations(1..Len(s))} :
             \A i \in 1..(Len(s) - 1) : ~Less(t[i + 1], t[i]) }

Positioned(p) == p.ListPosition > 0

Unpositioned(p) == ~Positioned(p)

\* main up to the reconciliation pass: the flags, the catalog
MainStart ==
    /\ mpc = "start"
    /\ \E loaded \in BOOLEAN :
         IF ~loaded
         THEN mpc' = "exit" /\ UNCHANGED <<pc, vIdx>>
         ELSE /\ mpc' = AfterFlags(skipUpdateCheck)
              /\ pc' = IF mpc' = "check" THEN "start" ELSE pc
              /\ vIdx' = 1
    /\ UNCHANGED <<products, productsIn, brandNames, idx, results,
                   recencyResults, lookupErr, checkErr, pIdx, tokens, last,
                   timeToAct, now, batchStart, admitTimes, callTimes, fdaLabel,
                   upstream, latencies, timerLags, callerCancelled, cancelCalls>>
    /\ UNCHANGED <<skipUpdateCheck, verdicts, sortedProducts, rendered>>
    /\ UNCHANGED <<vvars, evars>>

\* checkForLabelUpdates returns to main
MainCheckReturns ==
    /\ mpc = "check"
    /\ pc = "done"
    /\ mpc' = AfterCheck(checkErr)
    /\ vIdx' = 1
    /\ UNCHANGED <<skipUpdateCheck, verdicts, sortedProducts, rendered>>
    /\ UNCHANGED <<cvars, vvars, evars>>

\* the validation loop of main: the next product is handed to Validate, or
\* the loop is over
MainValidateCall ==
    /\ mpc = "validate"
    /\ IF vIdx > Len(products)
       THEN /\ mpc' = "order"
            /\ UNCHANGED vvars
       ELSE /\ mpc' = "validating"
            /\ subject' = products[vIdx]
            /\ vpc' = "head"
            /\ sIdx' = 1
            /\ verdict' = Passed
            /\ enumErr' = NoEnumError
            /\ evaluated' = <<>>
            /\ UNCHANGED <<wallDate, firstRun>>
    /\ UNCHANGED <<skipUpdateCheck, vIdx, verdicts, sortedProducts, rendered>>
    /\ UNCHANGED <<cvars, evars>>

\* p.Validate is over: a failure, a panic or an exit ends the process
MainValidateReturns ==
    /\ mpc = "validating"
    /\ vpc = "done"
    /\ verdicts' = Append(verdicts, verdict)
    /\ vpc' = "idle"
    /\ IF verdict # Passed
       THEN mpc' = "exit" /\ UNCHANGED vIdx
       ELSE mpc' = "validate" /\ vIdx' = vIdx + 1
    /\ UNCHANGED <<subject, wallDate, sIdx, verdict, enumErr, firstRun, evaluated>>
    /\ UNCHANGED <<skipUpdateCheck, sortedProducts, rendered>>
    /\ UNCHANGED <<cvars, evars>>

\* the display ordering: the positioned products sorted, then the others
MainOrder ==
    /\ mpc = "order"
    /\ \E sp \in SortOutcomes(SelectSeq(products, Positioned)) :
         sortedProducts' = sp \o SelectSeq(products, Unpositioned)
    /\ mpc' = "render"
    /\ UNCHANGED <<skipUpdateCheck, vIdx, verdicts, rendered>>
    /\ UNCHANGED <<cvars, vvars, evars>>

\* renderIndex(products)
MainRender ==
    /\ mpc = "render"
    /\ rendered' = [called |-> TRUE, Products |-> sortedProducts]
    /\ \E written \in BOOLEAN : mpc' = IF written THEN "end" ELSE "exit"
    /\ UNCHANGED <<skipUpdateCheck, vIdx, verdicts, sortedProducts>>
    /\ UNCHANGED <<cvars, vvars, evars>>

\* ------------------------------------------------------- specifications

Routes == {S_SubcutaneousInjection, S_AutomaticApplicator, S_TubelessInsulinPump}

ReconProducts ==
    { [BaseProduct EXCEPT !.BrandName = b, !.AdminRoute = r,
                          !.FDALabelUpdated = u, !.FDALabelNeedsUpdate = f] :
        b \in {BrandOz, BrandJa}, r \in Routes,
        u \in {Dash20240101, Date20240101}, f \in BOOLEAN }

LookupProducts ==
    { [BaseProduct EXCEPT !.BrandName = BrandOz],
      [BaseProduct EXCEPT !.BrandName = BrandJa],
      [BaseProduct EXCEPT !.BrandName = BrandOz,
                          !.AdminRoute = S_AutomaticApplicator] }

\* ------------------------------------------------------ validation inputs

PhoneGood ==
    <<"1", "-", "8", "0", "0", "-", "5", "5", "5", "-", "5", "5", "5", "5">>
PhoneBad ==
    <<"5", "5", "5", "-", "1", "2", "3", "4">>
LinkGood ==
    <<"h", "t", "t", "p", "s", ":", "/", "/", "x", ".", "c", "o">>
LinkBad ==
    <<"f", "t", "p", ":", "/", "/", "x", ".", "c", "o">>
S_Ketchup ==
    <<"K", "e", "t", "c", "h", "u", "p">>
S_Coupon ==
    <<"C", "o", "u", "p", "o", "n">>
S_NasalSpray ==
    <<"N", "a", "s", "a", "l", " ", "S", "p", "r", "a", "y">>
UrlGood == fdaLabelRepoPrefix \o <<"a", ".", "p", "d", "f">>
UrlUpper == fdaLabelRepoPrefix \o <<"a", ".", "P", "D", "F", "?", "v", "=", "2">>
UrlBadEscape == fdaLabelRepoPrefix \o <<"a", "%", "z", "z", ".", "p", "d", "f">>
UrlText == fdaLabelRepoPrefix \o <<"a", ".", "t", "x", "t">>
UrlExample ==
    <<"h", "t", "t", "p", "s", ":", "/", "/", "e", "x", "a", "m", "p", "l", "e", ".", "c", "o", "m", "/", "l", "a", "b", "e", "l", ".", "p", "d", "f">>
S_glp1Lower ==
    <<"g", "l", "p", "-", "1">>
S_oralTabletLower ==
    <<"o", "r", "a", "l", " ", "t", "a", "b", "l", "e", "t">>
UrlBlank == <<" ">>
UrlFragment == fdaLabelRepoPrefix \o <<"a", ".", "p", "d", "f", "#", "p">>

\* savings entries: three valid ones (the last with a blank phone and link),
\* and one for each rule of savingsInfo.Validate that breaks that rule and
\* rules after it
SavingsPool ==
    { GoodSavings,
      [GoodSavings EXCEPT !.Phone = PhoneGood, !.Link = LinkGood],
      [GoodSavings EXCEPT !.Phone = <<" ">>, !.Link = <<" ">>],
      [GoodSavings EXCEPT !.Description = <<" ">>, !.Phone = PhoneBad],
      [GoodSavings EXCEPT !.Phone = PhoneBad, !.Link = LinkBad,
                          !.Type = S_Coupon],
      [GoodSavings EXCEPT !.Link = LinkBad, !.Type = S_Coupon],
      [GoodSavings EXCEPT !.Type = S_Coupon] }

\* products that differ in the fields the first four rules read
HeadProducts ==
    { [BaseProduct EXCEPT !.BrandName = b, !.IngredientName = i,
                          !.DoseFrequency = d, !.Savings = sv,
                          !.MedicineType = m, !.AdminRoute = r,
                          !.FDALabelFile = f] :
        b \in {<<>>, <<" ">>, BrandOz}, i \in {<<>>, <<"s", "e", "m", "a">>},
        d \in {<<>>, <<"w", "k">>},
        sv \in {<<>>, <<GoodSavings>>,
                <<[GoodSavings EXCEPT !.Phone = PhoneBad, !.Link = LinkBad,
                                      !.Type = S_Coupon]>>},
        m \in {S_GLP1, S_Ketchup, S_glp1Lower},
        r \in {S_SubcutaneousInjection, S_NasalSpray, S_oralTabletLower},
        f \in {<<>>, UrlExample} }

\* products that pass the first four rules and differ in their savings entries
SavingsProducts ==
    { [BaseProduct EXCEPT !.Savings = sv, !.FDALabelFile = f] :
        sv \in SeqsUpTo(SavingsPool, MaxSavings) \ {<<>>},
        f \in {<<>>, UrlGood, UrlExample} }

\* products that pass every rule before the label rules and differ in their
\* label link and recorded label date
LabelProducts ==
    { [BaseProduct EXCEPT !.Savings = sv, !.FDALabelFile = f,
                          !.FDALabelUpdated = u] :
        sv \in {<<GoodSavings>>,
                <<[GoodSavings EXCEPT !.Phone = PhoneGood, !.Link = LinkGood],
                  GoodSavings>>},
        f \in {<<>>, UrlBlank, UrlGood, UrlUpper, UrlBadEscape, UrlText,
               UrlExample, UrlFragment},
        u \in {Dash20240101, Dash20240615, Date20240101} }

ValidateProducts == HeadProducts \cup SavingsProducts \cup LabelProducts

\* checkForLabelUpdates is not running
InitCheckIdle ==
    /\ products = <<>>
    /\ upstream = "recon"
    /\ latencies = {0}
    /\ timerLags = {0}
    /\ productsIn = products
    /\ pc = "idle"
    /\ brandNames = <<>>
    /\ idx = 1
    /\ results = <<>>
    /\ recencyResults = NilMap
    /\ lookupErr = "nil"
    /\ checkErr = "nil"
    /\ pIdx = 1
    /\ tokens = 0
    /\ last = 0
    /\ timeToAct = 0
    /\ now = 0
    /\ batchStart = 0
    /\ admitTimes = <<>>
    /\ callTimes = <<>>
    /\ fdaLabel = NoResponse
    /\ callerCancelled = FALSE
    /\ cancelCalls = -1

\* main is not running
InitMainIdle ==
    /\ mpc = "off"
    /\ skipUpdateCheck = FALSE
    /\ vIdx = 1
    /\ verdicts = <<>>
    /\ sortedProducts = <<>>
    /\ rendered = NotRendered

\* the strings enumerations are made of and are asked about
EnumStrings ==
    { <<>>, <<"A">>, <<"A", "b">>, <<"a", "b">>, <<"A", "b", " ">>, S_GLP1 }

\* no method of enum is being called
InitEnumIdle ==
    /\ enumValues = <<>>
    /\ enumValuesIn = enumValues
    /\ enumArg = <<>>
    /\ epc = "idle"
    /\ enumRet = FALSE

\* product.Validate is not running
InitValidateIdle ==
    /\ InitEnumIdle
    /\ subject = BaseProduct
    /\ wallDate = DateKey(2024, 3, 1)
    /\ vpc = "idle"
    /\ sIdx = 1
    /\ verdict = Passed
    /\ enumErr = NoEnumError
    /\ firstRun = NoRun
    /\ evaluated = <<>>

InitCommon ==
    /\ InitValidateIdle
    /\ InitMainIdle
    /\ productsIn = products
    /\ pc = "start"
    /\ brandNames = <<>>
    /\ idx = 1
    /\ results = <<>>
    /\ recencyResults = NilMap
    /\ lookupErr = "nil"
    /\ checkErr = "nil"
    /\ pIdx = 1
    /\ tokens = 0
    /\ last = 0
    /\ timeToAct = 0
    /\ now = 0
    /\ batchStart = 0
    /\ admitTimes = <<>>
    /\ callTimes = <<>>
    /\ fdaLabel = NoResponse
    /\ callerCancelled = FALSE
    /\ cancelCalls = -1

\* the matcher and the lookup client, against every response over DocPool
InitLookup ==
    /\ products \in SeqsUpTo(LookupProducts, MaxProducts)
    /\ upstream = "index"
    /\ latencies = {0}
    /\ timerLags = {0}
    /\ InitCommon

\* the orchestrator, over every product collection
InitRecon ==
    /\ products \in SeqsUpTo(ReconProducts, MaxProducts)
    /\ upstream = "recon"
    /\ latencies = {0}
    /\ timerLags = {0}
    /\ InitCommon

\* the pacing of the batch, over every timing of the calls and the timer
InitPacing ==
    /\ products \in SeqsUpTo(LookupProducts, MaxProducts + 1)
    /\ upstream = "pacing"
    /\ latencies = 0..MaxCallSeconds
    /\ timerLags = 0..MaxTimerLag
    /\ InitCommon

\* product.Validate on every product of ValidateProducts, on either side of
\* the recorded dates
InitValidate ==
    /\ subject \in ValidateProducts
    /\ wallDate \in WallDates
    /\ vpc = "head"
    /\ sIdx = 1
    /\ verdict = Passed
    /\ enumErr = NoEnumError
    /\ firstRun = NoRun
    /\ evaluated = <<>>
    /\ InitCheckIdle
    /\ InitEnumIdle
    /\ InitMainIdle

\* a method of enum, on every enumeration of up to MaxEnumLen of EnumStrings
\* and on the medicine types, with a member, a value that differs from one in
\* case, in length or by a trailing space, and a value unlike any member
InitEnum ==
    /\ enumValues \in SeqsUpTo(EnumStrings, MaxEnumLen) \cup {medTypeEnum}
    /\ enumValuesIn = enumValues
    /\ enumArg \in EnumStrings \cup {S_glp1Lower, S_Ketchup}
    /\ epc = "call"
    /\ enumRet = FALSE
    /\ InitCheckIdle
    /\ InitMainIdle
    /\ subject = BaseProduct
    /\ wallDate = DateKey(2024, 3, 1)
    /\ vpc = "idle"
    /\ sIdx = 1
    /\ verdict = Passed
    /\ enumErr = NoEnumError
    /\ firstRun = NoRun
    /\ evaluated = <<>>

NextEnum == EnumValid \/ EnumValidCI \/ EnumCheckError

SpecEnum == InitEnum /\ [][NextEnum]_vars

NextValidate == ValidateHead \/ ValidateSavings \/ ValidateLabel \/ Revalidate

SpecValidate == InitValidate /\ [][NextValidate]_vars

NextCheck == CheckStart \/ LimiterWait \/ LimiterWake \/ LookupBrand \/ Annotate

NextPacing == NextCheck \/ CallerCancel

SpecLookup == InitLookup /\ [][NextCheck]_vars

SpecRecon == InitRecon /\ [][NextCheck]_vars

SpecPacing == InitPacing /\ [][NextPacing]_vars

\* ------------------------------------------------------------ properties

\* the leading token of a line: its longest prefix that holds no space
LeadingToken(line) ==
    LET n == CHOOSE n \in 0..Len(line) :
                 /\ \A i \in 1..n : line[i] # " "
                 /\ n < Len(line) => line[n + 1] = " "
    IN  SubSeq(line, 1, n)

\* the document describes the brand
DocMatches(brandName, doc) ==
    /\ doc.SplProductDataElements # <<>>
    /\ ToLower(LeadingToken(Head(doc.SplProductDataElements))) = ToLower(brandName)

MatchingDocs(brandName, docs) ==
    {k \in 1..Len(docs) : DocMatches(brandName, docs[k])}

\* the last upstream call was answered with documents and its brand resolved
LastLookupSucceeded == fdaLabel.kind = "ok" /\ lookupErr = "nil"

Eligible(p) ==
    p.AdminRoute # S_AutomaticApplicator /\ p.AdminRoute # S_TubelessInsulinPump

Recorded(p) == ParseDashDate(p.FDALabelUpdated)
\* the catalogs main is run on: products that pass validation, with and
\* without a list position or a label link, eligible or not, flagged or not; products that
\* fail validation by a returned error, a panic and an exit; and a product
\* whose recorded label date the reconciliation pass cannot parse
MainProducts ==
    { [BaseProduct EXCEPT !.ListPosition = 2],
      [BaseProduct EXCEPT !.BrandName = BrandJa, !.ListPosition = 1],
      [BaseProduct EXCEPT !.AdminRoute = S_AutomaticApplicator,
                          !.FDALabelNeedsUpdate = TRUE],
      [BaseProduct EXCEPT !.BrandName = BrandJa, !.FDALabelNeedsUpdate = TRUE],
      [BaseProduct EXCEPT !.FDALabelFile = UrlGood, !.ListPosition = 1],
      [BaseProduct EXCEPT !.MedicineType = S_Ketchup, !.ListPosition = 1],
      [BaseProduct EXCEPT !.BrandName = BrandJa,
                          !.Savings = <<[GoodSavings EXCEPT !.Phone = PhoneBad]>>],
      [BaseProduct EXCEPT !.Savings = <<[GoodSavings EXCEPT !.Link = LinkBad]>>],
      [BaseProduct EXCEPT !.FDALabelUpdated = Date20240101] }

\* a run of main on every catalog of up to MaxProducts of MainProducts, with
\* the flag set and unset
InitMain ==
    /\ products \in SeqsUpTo(MainProducts, MaxProducts)
    /\ upstream = "pacing"
    /\ latencies = {0}
    /\ timerLags = {0}
    /\ productsIn = products
    /\ pc = "idle"
    /\ brandNames = <<>>
    /\ idx = 1
    /\ results = <<>>
    /\ recencyResults = NilMap
    /\ lookupErr = "nil"
    /\ checkErr = "nil"
    /\ pIdx = 1
    /\ tokens = 0
    /\ last = 0
    /\ timeToAct = 0
    /\ now = 0
    /\ batchStart = 0
    /\ admitTimes = <<>>
    /\ callTimes = <<>>
    /\ fdaLabel = NoResponse
    /\ callerCancelled = FALSE
    /\ cancelCalls = -1
    /\ InitValidateIdle
    /\ mpc = "start"
    /\ skipUpdateCheck \in BOOLEAN
    /\ vIdx = 1
    /\ verdicts = <<>>
    /\ sortedProducts = <<>>
    /\ rendered = NotRendered

NextMain ==
    \/ MainStart
    \/ NextCheck
    \/ MainCheckReturns
    \/ MainValidateCall
    \/ ValidateHead
    \/ ValidateSavings
    \/ ValidateLabel
    \/ MainValidateReturns
    \/ MainOrder
    \/ MainRender

SpecMain == InitMain /\ [][NextMain]_vars

\* products that pass validation, of either brand and of every list position
\* from below zero to two
OrderProducts ==
    { [BaseProduct EXCEPT !.BrandName = b, !.ListPosition = n] :
        b \in {BrandOz, BrandJa}, n \in -1..2 }

\* main at the display ordering, run with the flag set on every catalog of up
\* to MaxOrderLen of OrderProducts, after each product passed validation
InitOrder ==
    /\ products \in SeqsUpTo(OrderProducts, MaxOrderLen)
    /\ upstream = "pacing"
    /\ latencies = {0}
    /\ timerLags = {0}
    /\ productsIn = products
    /\ pc = "idle"
    /\ brandNames = <<>>
    /\ idx = 1
    /\ results = <<>>
    /\ recencyResults = NilMap
    /\ lookupErr = "nil"
    /\ checkErr = "nil"
    /\ pIdx = 1
    /\ tokens = 0
    /\ last = 0
    /\ timeToAct = 0
    /\ now = 0
    /\ batchStart = 0
    /\ admitTimes = <<>>
    /\ callTimes = <<>>
    /\ fdaLabel = NoResponse
    /\ callerCancelled = FALSE
    /\ cancelCalls = -1
    /\ InitValidateIdle
    /\ mpc = "order"
    /\ skipUpdateCheck = TRUE
    /\ verdicts = [i \in 1..Len(products) |-> Passed]
    /\ vIdx = Len(products) + 1
    /\ sortedProducts = <<>>
    /\ rendered = NotRendered

NextOrder == MainOrder \/ MainRender

SpecOrder == InitOrder /\ [][NextOrder]_vars

C2_UnmatchedFailsBatch ==
    (/\ fdaLabel.kind = "ok"
     /\ fdaLabel.Results # <<>>
     /\ MatchingDocs(fdaLabel.brandName, fdaLabel.Results) = {})
    => /\ lookupErr = "noMatch"
       /\ recencyResults.isNil
       /\ checkErr = "lookup"
       /\ pc = "done"

\* three documents, none of them the brand's, for the second brand of a batch
C2_Witness ==
    /\ fdaLabel.kind = "ok"
    /\ Len(fdaLabel.Results) = 3
    /\ MatchingDocs(fdaLabel.brandName, fdaLabel.Results) = {}
    /\ \E k \in 1..3 : fdaLabel.Results[k].SplProductDataElements # <<>>
    /\ idx = 2
    /\ lookupErr = "noMatch"

\* C3: after a successful pass, an eligible product whose flag was false on
\* entry is flagged exactly when the date resolved for its brand is strictly
\* after its recorded date.
C3_FlagIffStrictlyAfter ==
    (pc = "done" /\ checkErr = "nil") =>
        \A i \in 1..Len(products) :
            (Eligible(productsIn[i]) /\ ~productsIn[i].FDALabelNeedsUpdate) =>
                /\ Recorded(productsIn[i]).ok
                /\ productsIn[i].BrandName \in DOMAIN recencyResults.m
                /\ products[i].FDALabelNeedsUpdate
                     = (recencyResults.m[productsIn[i].BrandName]
                          > Recorded(productsIn[i]).t)

\* recorded 2024-01-01: one brand resolved to 2024-06-15 and flagged, the other
\* resolved to 2024-01-01 itself and not flagged
C3_Witness ==
    /\ pc = "done" /\ checkErr = "nil"
    /\ Len(products) = 2
    /\ \A i \in 1..2 : /\ Eligible(productsIn[i])
                       /\ ~productsIn[i].FDALabelNeedsUpdate
                       /\ productsIn[i].FDALabelUpdated = Dash20240101
    /\ productsIn[1].BrandName # productsIn[2].BrandName
    /\ recencyResults.m[productsIn[1].BrandName] = DateKey(2024, 6, 15)
    /\ products[1].FDALabelNeedsUpdate
    /\ recencyResults.m[productsIn[2].BrandName] = DateKey(2024, 1, 1)
    /\ ~products[2].FDALabelNeedsUpdate

\* C4: a product on an excluded route adds no brand to the batch and its flag
\* is never altered.
C4_ExcludedNeverAnnotated ==
    /\ pc # "start" =>
         Len(brandNames) = Cardinality({i \in 1..Len(productsIn) : Eligible(productsIn[i])})
    /\ \A i \in 1..Len(products) :
         ~Eligible(productsIn[i]) =>
             products[i].FDALabelNeedsUpdate = productsIn[i].FDALabelNeedsUpdate

\* C5: when the recorded date of the eligible product at position k does not
\* parse, the pass ends in a failure, the product at k and those after it are as
\* they were passed in, and when the pass stopped at k the eligible products
\* before k hold the flag computed for them.
C5_BadRecordedDateAborts ==
    pc = "done" =>
        \A k \in 1..Len(products) :
            (Eligible(productsIn[k]) /\ ~Recorded(productsIn[k]).ok) =>
                /\ checkErr # "nil"
                /\ \A j \in k..Len(products) : products[j] = productsIn[j]
                /\ (checkErr = "parseUpdated" /\ pIdx = k) =>
                     \A j \in 1..(k - 1) :
                         Eligible(productsIn[j]) =>
                             products[j].FDALabelNeedsUpdate
                               = (\/ productsIn[j].FDALabelNeedsUpdate
                                  \/ recencyResults.m[productsIn[j].BrandName]
                                       > Recorded(productsIn[j]).t)

\* the pass stopped at the second product, after flagging the first
C5_Witness ==
    /\ pc = "done" /\ checkErr = "parseUpdated" /\ pIdx = 2
    /\ Eligible(productsIn[1]) /\ Eligible(productsIn[2])
    /\ ~Recorded(productsIn[2]).ok
    /\ ~productsIn[1].FDALabelNeedsUpdate
    /\ products[1].FDALabelNeedsUpdate
    /\ products[2] = productsIn[2]

\* C6: a transport error, a non-200 status, a malformed body or an empty result
\* list for the brand at any position ends the lookup at that call, with a
\* failure and no result map.
C6_HardFailureNoPartialResults ==
    (\/ fdaLabel.kind \in {"transportError", "non200", "badBody"}
     \/ (fdaLabel.kind = "ok" /\ fdaLabel.Results = <<>>))
    => /\ pc = "done"
       /\ lookupErr = (CASE fdaLabel.kind = "transportError" -> "request"
                         [] fdaLabel.kind = "non200" -> "non200"
                         [] fdaLabel.kind = "badBody" -> "decode"
                         [] OTHER -> "noResults")
       /\ recencyResults.isNil
       /\ checkErr = "lookup"
       /\ Len(callTimes) = idx
       /\ products = productsIn

\* the second call of a batch fails after the first brand was resolved
C6_Witness ==
    /\ fdaLabel.kind = "non200"
    /\ idx = 2
    /\ Len(brandNames) = 2
    /\ DOMAIN results # {}
    /\ recencyResults.isNil

\* the lookup phase of the pass is over and every brand was resolved
LookupCompleted == pc \in {"annotate", "done"} /\ ~recencyResults.isNil

\* C7 as claimed: the first call is issued with zero wait, every two successive
\* upstream calls are issued at least the interval apart, and a batch of N
\* brands that completes takes at least (N-1) x interval.
C7_CallsSpacedByInterval ==
    /\ callTimes # <<>> => callTimes[1] = batchStart
    /\ \A i \in 1..(Len(callTimes) - 1) :
         callTimes[i + 1] - callTimes[i] >= rateLimitSeconds
    /\ (LookupCompleted /\ brandNames # <<>>) =>
         now - batchStart >= (Len(brandNames) - 1) * rateLimitSeconds

\* C7 amended: the first call is admitted with zero wait, the instants at which
\* the limiter admits two successive calls are at least the interval apart, no
\* call is issued before it is admitted, and a batch of N brands that completes
\* takes at least (N-1) x interval.
C7_AdmissionsSpacedByInterval ==
    /\ admitTimes # <<>> => admitTimes[1] = batchStart
    /\ \A i \in 1..(Len(admitTimes) - 1) :
         admitTimes[i + 1] - admitTimes[i] >= rateLimitSeconds
    /\ Len(callTimes) <= Len(admitTimes)
    /\ \A i \in 1..Len(callTimes) : callTimes[i] >= admitTimes[i]
    /\ (LookupCompleted /\ brandNames # <<>>) =>
         now - batchStart >= (Len(brandNames) - 1) * rateLimitSeconds

\* a batch of three brands completed; the timer of the second call fired late
\* and the third call was issued less than the interval after the second
C7_Witness ==
    /\ LookupCompleted
    /\ Len(callTimes) = 3
    /\ callTimes[2] > admitTimes[2]
    /\ callTimes[3] - callTimes[2] < rateLimitSeconds
    /\ admitTimes[3] - admitTimes[2] >= rateLimitSeconds

RECURSIVE SavingsRules(_, _)
SavingsRules(q, k) ==
    IF k > Len(q.Savings) THEN <<>>
    ELSE << <<"description", k>>, <<"phone", k>>, <<"link", k>>,
            <<"savingsType", k>> >> \o SavingsRules(q, k + 1)

RulesInOrder(q) ==
    << <<"required", 0>>, <<"savingsEmpty", 0>>, <<"medicineType", 0>>,
       <<"adminRoute", 0>> >>
    \o SavingsRules(q, 1)
    \o (IF HasLabelLink(q)
        THEN << <<"labelDate", 0>>, <<"labelFuture", 0>>, <<"labelRepo", 0>>,
                <<"labelURL", 0>>, <<"labelPdf", 0>> >>
        ELSE <<>>)

\* product q breaks the rule
Violates(q, today, rule) ==
    LET name == rule[1]
        k == rule[2]
    IN  CASE name = "required" -> MissingRequired(q)
          [] name = "savingsEmpty" -> SavingsEmpty(q)
          [] name = "medicineType" -> BadMedicineType(q)
          [] name = "adminRoute" -> BadAdminRoute(q)
          [] name = "description" -> BlankDescription(q.Savings[k])
          [] name = "phone" -> BadPhone(q.Savings[k])
          [] name = "link" -> BadLink(q.Savings[k])
          [] name = "savingsType" -> BadSavingsType(q.Savings[k])
          [] name = "labelDate" -> BadLabelDate(q)
          [] name = "labelFuture" -> LabelDateInFuture(q, today)
          [] name = "labelRepo" -> NotInLabelRepo(q)
          [] name = "labelURL" -> BadLabelURL(q)
          [] name = "labelPdf" -> NotAPdf(q)

\* the positions in RulesInOrder(q) of the rules product q breaks
ViolatedRules(q, today) ==
    LET rules == RulesInOrder(q)
    IN  {i \in 1..Len(rules) : Violates(q, today, rules[i])}

\* the position of the earliest of the rules, from position i on, that
\* product q breaks, or 0 when it breaks none of them
RECURSIVE FirstViolated(_, _, _, _)
FirstViolated(q, today, rules, i) ==
    IF i > Len(rules) THEN 0
    ELSE IF Violates(q, today, rules[i]) THEN i
    ELSE FirstViolated(q, today, rules, i + 1)

\* C9: product.Validate applies its rules in the listed order and reports only
\* the first violated one: the verdict of a finished validation names the
\* earliest rule the product breaks (or none), and the rules it evaluated are
\* exactly the rules up to that one, in order.
C9_FirstViolationWins ==
    vpc = "done" =>
        LET rules == RulesInOrder(subject)
            n == FirstViolated(subject, wallDate, rules, 1)
        IN  IF n = 0
            THEN verdict = Passed /\ evaluated = rules
            ELSE /\ verdict.rule = rules[n][1]
                 /\ verdict.entry = rules[n][2]
                 /\ evaluated = SubSeq(rules, 1, n)

\* a finished validation of a product that breaks three rules or more, two of
\* them in its second savings entry and one on its label: the verdict is the
\* phone rule of that entry
C9_Witness ==
    /\ vpc = "done"
    /\ verdict.rule = "phone"
    /\ verdict.entry = 2
    /\ BadLink(subject.Savings[2])
    /\ HasLabelLink(subject)
    /\ NotInLabelRepo(subject)
    /\ Cardinality(ViolatedRules(subject, wallDate)) >= 3

RejectedByRule1 == vpc = "done" /\ verdict.rule \in {"required", "savingsEmpty"}

\* C10: a product is rejected by the first rule exactly when its brand name,
\* ingredient name or dose frequency is the empty string or its savings list
\* has no entries.
C10_RequiredFields ==
    vpc = "done" =>
        (RejectedByRule1 <=>
            \/ subject.BrandName = <<>>
            \/ subject.IngredientName = <<>>
            \/ subject.DoseFrequency = <<>>
            \/ Len(subject.Savings) = 0)

\* a product rejected only for its empty dose frequency
C10_Witness ==
    /\ RejectedByRule1
    /\ subject.BrandName # <<>>
    /\ subject.IngredientName # <<>>
    /\ subject.DoseFrequency = <<>>
    /\ Len(subject.Savings) > 0


\* the values of an enumeration
Members(e) == {e[k] : k \in 1..Len(e)}

\* the failure of a finished validation is the invalid-enum violation of
\* value against enumeration e
InvalidEnumViolation(e, value) ==
    enumErr = [isNil |-> FALSE, value |-> value, allowed |-> e]

\* C11: a product that has its required fields and savings is rejected for its
\* medicine type exactly when the type is not, character for character, a
\* member of the medicine-type enumeration, and otherwise for its
\* administration route exactly when the route is not a member of the route
\* enumeration; either failure carries the value and the allowed set.
C11_ClosedSetsExact ==
    (vpc = "done" /\ ~RejectedByRule1) =>
        /\ verdict.rule = "medicineType" <=>
               subject.MedicineType \notin Members(medTypeEnum)
        /\ verdict.rule = "medicineType" =>
               InvalidEnumViolation(medTypeEnum, subject.MedicineType)
        /\ verdict.rule = "adminRoute" <=>
               /\ subject.MedicineType \in Members(medTypeEnum)
               /\ subject.AdminRoute \notin Members(adminRouteEnum)
        /\ verdict.rule = "adminRoute" =>
               InvalidEnumViolation(adminRouteEnum, subject.AdminRoute)

\* a product rejected for a medicine type that differs from a member only in
\* letter case
C11_Witness ==
    /\ vpc = "done"
    /\ verdict.rule = "medicineType"
    /\ subject.MedicineType = S_glp1Lower
    /\ ToLower(S_GLP1) = S_glp1Lower
    /\ enumErr.allowed = medTypeEnum


\* a string with nothing but white space in it
Blank(s) == \A i \in 1..Len(s) : s[i] \in WhiteSpace

PhoneTemplate ==
    <<"1", "-", "D", "D", "D", "-", "D", "D", "D", "-", "D", "D", "D", "D">>

\* a phone of the form 1-DDD-DDD-DDDD
PhoneShaped(s) ==
    /\ Len(s) = Len(PhoneTemplate)
    /\ \A i \in 1..Len(s) :
        IF PhoneTemplate[i] = "D"
        THEN s[i] \in {"0", "1", "2", "3", "4", "5", "6", "7", "8", "9"}
        ELSE s[i] = PhoneTemplate[i]

BeginsWith(s, t) == Len(s) >= Len(t) /\ SubSeq(s, 1, Len(t)) = t

\* the four conditions on a savings entry
DescriptionOK(s) == ~Blank(s.Description)
PhoneOK(s) == Blank(s.Phone) \/ PhoneShaped(s.Phone)
LinkOK(s) ==
    Blank(s.Link) \/ BeginsWith(s.Link, S_httpScheme)
                  \/ BeginsWith(s.Link, S_httpsScheme)
TypeOK(s) == s.Type \in Members(savingsTypeEnum)
EntryOK(s) == DescriptionOK(s) /\ PhoneOK(s) /\ LinkOK(s) /\ TypeOK(s)

SavingsRuleNames == {"description", "phone", "link", "savingsType"}

PassedHead ==
    /\ vpc = "done"
    /\ verdict.rule \notin {"required", "savingsEmpty", "medicineType",
                            "adminRoute"}

\* C12: a product past the rules on its own fields is rejected for a savings
\* entry exactly when one of its entries has a blank description, a phone that
\* is present and not of the form 1-DDD-DDD-DDDD, a link that is present and
\* begins with neither http:// nor https://, or a category outside the
\* savings-type enumeration; the entry it is rejected for breaks the rule the
\* verdict names, and an entry that meets all four is never the one rejected.
C12_SavingsEntryRules ==
    PassedHead =>
        /\ verdict.rule \in SavingsRuleNames <=>
               \E k \in 1..Len(subject.Savings) : ~EntryOK(subject.Savings[k])
        /\ verdict.rule \in SavingsRuleNames =>
               LET s == subject.Savings[verdict.entry]
               IN  /\ ~EntryOK(s)
                   /\ verdict.rule = "description" => ~DescriptionOK(s)
                   /\ verdict.rule = "phone" => ~PhoneOK(s)
                   /\ verdict.rule = "link" => ~LinkOK(s)
                   /\ verdict.rule = "savingsType" => ~TypeOK(s)

\* a product rejected for the phone 555-1234 of its second entry, after a
\* first entry with a well-formed phone and link
C12_Witness ==
    /\ PassedHead
    /\ verdict.rule = "phone"
    /\ verdict.entry = 2
    /\ subject.Savings[2].Phone = PhoneBad
    /\ subject.Savings[1].Phone = PhoneGood
    /\ subject.Savings[1].Link = LinkGood


\* a date written YYYY-MM-DD
IsDashDate(s) ==
    /\ Len(s) = 10
    /\ s[5] = "-" /\ s[8] = "-"
    /\ \A i \in {1, 2, 3, 4, 6, 7, 9, 10} : IsDigit(s[i])
    /\ LET y == Atoi(SubSeq(s, 1, 4))
           m == Atoi(SubSeq(s, 6, 7))
           d == Atoi(SubSeq(s, 9, 10))
       IN  m \in 1..12 /\ d >= 1 /\ d <= DaysIn(m, y)

\* the day a date written YYYY-MM-DD names
DashDay(s) ==
    DateKey(Atoi(SubSeq(s, 1, 4)), Atoi(SubSeq(s, 6, 7)), Atoi(SubSeq(s, 9, 10)))

\* the first position from i on where s holds one of the characters, or
\* Len(s) + 1
FirstOf(s, chars, i) ==
    LET at == {j \in i..Len(s) : s[j] \in chars}
    IN  IF at = {} THEN Len(s) + 1 ELSE CHOOSE j \in at : \A k \in at : j <= k

\* the path component of an absolute URL scheme://authority/path?query#fragment
UrlPath(u) ==
    LET colon == FirstOf(u, {":"}, 1)
        slash == FirstOf(u, {"/", "?", "#"}, colon + 3)
        stop == FirstOf(u, {"?", "#"}, slash)
    IN  SubSeq(u, slash, stop - 1)

WellFormedAbsoluteURL(u) ==
    ParseRequestURI(u).ok /\ GetScheme(u).scheme # <<>>

EndsWith(s, t) ==
    Len(s) >= Len(t) /\ SubSeq(s, Len(s) - Len(t) + 1, Len(s)) = t

\* the five conditions on a product with a label link
LabelOK(q, today) ==
    /\ IsDashDate(q.FDALabelUpdated)
    /\ DashDay(q.FDALabelUpdated) <= today
    /\ BeginsWith(q.FDALabelFile, fdaLabelRepoPrefix)
    /\ WellFormedAbsoluteURL(q.FDALabelFile)
    /\ EndsWith(ToLower(UrlPath(q.FDALabelFile)), S_dotPdf)

PassedSavings == PassedHead /\ verdict.rule \notin SavingsRuleNames

\* C13: a product past the rules before the label rules passes validation
\* exactly when it has no label link, or its recorded label date is written
\* YYYY-MM-DD and is not after the day of validation, and its link begins with
\* the label-repository prefix, is a well-formed absolute URL, and has a path
\* that ends in .pdf in any letter case.
C13_LabelRuleIff ==
    PassedSavings =>
        (verdict = Passed <=>
            \/ Blank(subject.FDALabelFile)
            \/ LabelOK(subject, wallDate))

\* the same, for label links without a fragment
C13_LabelRuleIffNoFragment ==
    (PassedSavings /\ FirstOf(subject.FDALabelFile, {"#"}, 1) > Len(subject.FDALabelFile)) =>
        (verdict = Passed <=>
            \/ Blank(subject.FDALabelFile)
            \/ LabelOK(subject, wallDate))


\* the product has a label link that does not begin with the repository prefix
OutsideLabelRepo(q) ==
    ~Blank(q.FDALabelFile) /\ ~BeginsWith(q.FDALabelFile, fdaLabelRepoPrefix)

\* C14 as stated: a product that passes rules 1 to 3 and has a label link
\* outside the label repository fails with the repository-prefix violation.
C14_OutsideRepoFailsPrefixRule ==
    (PassedSavings /\ OutsideLabelRepo(subject)) => verdict.rule = "labelRepo"

\* C14: a product that passes rules 1 to 3, has a recorded label date written
\* YYYY-MM-DD that is not after the day of validation, and has a label link
\* outside the label repository fails with the repository-prefix violation,
\* whatever the link ends in; with a malformed or future date it fails with
\* the violation of the date rule instead.
C14_OutsideRepoFailsAfterDateRules ==
    (PassedSavings /\ OutsideLabelRepo(subject)) =>
        /\ verdict # Passed
        /\ IF ~IsDashDate(subject.FDALabelUpdated)
           THEN verdict.rule = "labelDate"
           ELSE IF DashDay(subject.FDALabelUpdated) > wallDate
           THEN verdict.rule = "labelFuture"
           ELSE verdict.rule = "labelRepo"

\* https://example.com/label.pdf, with a good date, fails the repository rule
C14_Witness ==
    /\ PassedSavings
    /\ subject.FDALabelFile = UrlExample
    /\ EndsWith(UrlExample, S_dotPdf)
    /\ IsDashDate(subject.FDALabelUpdated)
    /\ DashDay(subject.FDALabelUpdated) <= wallDate
    /\ verdict.rule = "labelRepo"


\* C15: every violation found by product.Validate reaches its caller as a
\* returned failure: a validation that ends with a violation ends by
\* returning, never by a panic or by ending the process.
C15_ViolationsAreReturned ==
    (vpc = "done" /\ verdict # Passed) => verdict.how = "return"


SecondRunDone == firstRun.ran /\ vpc = "done"

\* C16 as stated: a second validation of the same product passes exactly when
\* the first one did, whatever time has passed in between.
C16_SameVerdictOnRerun ==
    SecondRunDone => (verdict = Passed <=> firstRun.verdict = Passed)

\* C16: a second validation of the same product, at the same time or later,
\* ends with the verdict of the first one, unless time has passed and the
\* first one rejected the product for a label date in the future.
C16_SameVerdictUnlessDateWasFuture ==
    (SecondRunDone /\ (firstRun.wallDate = wallDate
                          \/ firstRun.verdict.rule # "labelFuture")) =>
        verdict = firstRun.verdict

\* a product with a label link accepted twice, the second time on a later day
C16_Witness ==
    /\ SecondRunDone
    /\ firstRun.wallDate < wallDate
    /\ ~Blank(subject.FDALabelFile)
    /\ firstRun.verdict = Passed
    /\ verdict = Passed


\* the brands of the eligible products of the catalog, one for every
\* occurrence, in catalog order
EligibleOccurrences ==
    LET ps == SelectSeq(productsIn, Eligible)
    IN  [i \in 1..Len(ps) |-> ps[i].BrandName]

\* C18: the upstream is called once for every eligible product occurrence, in
\* catalog order and one call at a time: the calls issued so far are for a
\* prefix of the eligible occurrences, the call just issued is for the
\* occurrence of its position, every call before it has been processed to its
\* recorded result, no call is pending while an earlier one is unprocessed, and
\* a lookup that completes has called once for every occurrence, duplicates
\* included.
C18_OneCallPerOccurrenceInOrder ==
    LET n == Len(callTimes)
    IN  /\ n <= Len(EligibleOccurrences)
        /\ fdaLabel # NoResponse =>
              /\ n >= 1
              /\ fdaLabel.brandName = EligibleOccurrences[n]
              /\ \A j \in 1..(n - 1) : EligibleOccurrences[j] \in DOMAIN results
        /\ pc \in {"wait", "sleep", "request"} =>
              /\ n = idx - 1
              /\ \A j \in 1..n : EligibleOccurrences[j] \in DOMAIN results
        /\ LookupCompleted => n = Len(EligibleOccurrences)

\* a completed lookup over a catalog of an eligible product, an excluded one
\* and the eligible one again: two calls, both for the same brand
C18_Witness ==
    /\ LookupCompleted
    /\ Len(productsIn) = 3
    /\ Eligible(productsIn[1])
    /\ ~Eligible(productsIn[2])
    /\ productsIn[3] = productsIn[1]
    /\ Len(callTimes) = 2
    /\ fdaLabel.brandName = productsIn[3].BrandName


\* C17: Valid is true exactly when the value is a member of the enumeration,
\* character for character; ValidCI is true exactly when the value and a
\* member are equal once both are in lower case; CheckError returns nil
\* exactly when the value is a member and otherwise the invalid-value error
\* with the value and the enumeration; and the enumeration is as it was before
\* the call.
C17_EnumContract ==
    /\ enumValues = enumValuesIn
    /\ epc = "Valid" => (enumRet <=> enumArg \in Members(enumValuesIn))
    /\ epc = "ValidCI" =>
          (enumRet <=> \E v \in Members(enumValuesIn) :
                           ToLower(v) = ToLower(enumArg))
    /\ epc = "CheckError" =>
          enumRet = IF enumArg \in Members(enumValuesIn)
                    THEN NoEnumError
                    ELSE [isNil |-> FALSE, value |-> enumArg,
                          allowed |-> enumValuesIn]

\* Valid has refused a value that is the beginning of a member
C17_Witness ==
    /\ epc = "Valid"
    /\ enumRet = FALSE
    /\ enumArg # <<>>
    /\ \E v \in Members(enumValuesIn) : BeginsWith(v, enumArg)


\* C19: checkForLabelUpdates leaves the collection as long as it was and in
\* the order it was in, changes no field of a product but the needs-update
\* flag, and returns the products that are not eligible as they came in.
C19_OnlyFlagOfEligibleChanges ==
    /\ Len(products) = Len(productsIn)
    /\ \A i \in 1..Len(products) :
         /\ [products[i] EXCEPT !.FDALabelNeedsUpdate = FALSE]
                = [productsIn[i] EXCEPT !.FDALabelNeedsUpdate = FALSE]
         /\ ~Eligible(productsIn[i]) => products[i] = productsIn[i]


\* the brands whose entry of the mapping is new or has a new value in a step
Written == {b \in DOMAIN results' : b \notin DOMAIN results \/ results'[b] # results[b]}

\* C20: the mapping starts empty, holds no brand that has not been looked up,
\* and an entry is written only for the brand of the response just received,
\* only when that response holds a document matching the brand, and with the
\* effective date of one of the matching documents; so a brand with no
\* matching document is never in the mapping.
C20_MappedBrandsHaveMatchingDocument ==
    /\ [](\A b \in DOMAIN results :
             \E j \in 1..(idx - 1) : j <= Len(brandNames) /\ brandNames[j] = b)
    /\ [][\A b \in Written :
             /\ b = fdaLabel'.brandName
             /\ \E k \in MatchingDocs(b, fdaLabel'.Results) :
                  /\ ParseCompactDate(fdaLabel'.Results[k].EffectiveTime).ok
                  /\ ParseCompactDate(fdaLabel'.Results[k].EffectiveTime).t
                        = results'[b]]_vars

\* a brand entered in the mapping from a response of a matching and a
\* non-matching document
C20_Witness ==
    /\ LastLookupSucceeded
    /\ fdaLabel.brandName \in DOMAIN results
    /\ Len(fdaLabel.Results) >= 2
    /\ MatchingDocs(fdaLabel.brandName, fdaLabel.Results) # {}
    /\ \E k \in 1..Len(fdaLabel.Results) :
         k \notin MatchingDocs(fdaLabel.brandName, fdaLabel.Results)

\* the last upstream call was answered with at least one document
Answered == fdaLabel.kind = "ok" /\ Len(fdaLabel.Results) > 0

\* what the answered call came to: its failure, or the date its brand got
Observed ==
    IF lookupErr # "nil" THEN [err |-> lookupErr, t |-> ZeroTime]
    ELSE [err |-> "nil", t |-> results[fdaLabel.brandName]]

HasElements(doc) == doc.SplProductDataElements # <<>>

EmptyDocs(docs) == {k \in 1..Len(docs) : ~HasElements(docs[k])}

\* C22: a returned document with an empty data-elements list is passed over:
\* the call comes to what it would have come to on the response without such
\* documents (same failure, or same date for the brand), and when every
\* returned document is empty the brand is reported unmatched.
C22_EmptyDocumentsArePassedOver ==
    (Answered /\ EmptyDocs(fdaLabel.Results) # {}) =>
        LET kept == SelectSeq(fdaLabel.Results, HasElements)
        IN  IF kept = <<>>
            THEN Observed.err = "noMatch"
            ELSE Observed = LookupOne(fdaLabel.brandName,
                                      [fdaLabel EXCEPT !.Results = kept])

\* a brand resolved from a document that follows an empty one
C22_Witness ==
    /\ Answered
    /\ lookupErr = "nil"
    /\ \E k \in EmptyDocs(fdaLabel.Results) :
         \E j \in MatchingDocs(fdaLabel.brandName, fdaLabel.Results) :
            /\ j > k
            /\ ParseCompactDate(fdaLabel.Results[j].EffectiveTime).t
                  = results[fdaLabel.brandName]

\* matching documents whose effective date is not a YYYYMMDD date
BadDateDocs(brandName, docs) ==
    {k \in MatchingDocs(brandName, docs) :
        ~ParseCompactDate(docs[k].EffectiveTime).ok}

\* C23: when any matching document of the response carries an effective date
\* that is not a valid YYYYMMDD date, the whole batch fails with the date
\* error and no mapping, whether or not another matching document is valid.
C23_BadDateFailsBatch ==
    (Answered /\ BadDateDocs(fdaLabel.brandName, fdaLabel.Results) # {}) =>
        /\ lookupErr = "parseEffectiveTime"
        /\ recencyResults = NilMap
        /\ checkErr = "lookup"
        /\ pc = "done"

\* the batch failed on a bad date that follows a matching document with a
\* valid, non-zero date
C23_Witness ==
    /\ Answered
    /\ lookupErr = "parseEffectiveTime"
    /\ \E k \in BadDateDocs(fdaLabel.brandName, fdaLabel.Results) :
         \E j \in MatchingDocs(fdaLabel.brandName, fdaLabel.Results) :
            /\ j < k
            /\ ParseCompactDate(fdaLabel.Results[j].EffectiveTime).ok
            /\ After(ParseCompactDate(fdaLabel.Results[j].EffectiveTime).t, ZeroTime)

\* the first token of a line split on runs of spaces, tabs and newlines
FirstField(line) ==
    LET white == {" ", "\t", "\n"}
        lo == CHOOSE i \in 1..(Len(line) + 1) :
                  /\ \A j \in 1..(i - 1) : line[j] \in white
                  /\ i <= Len(line) => line[i] \notin white
        hi == CHOOSE i \in (lo - 1)..Len(line) :
                  /\ \A j \in lo..i : line[j] \notin white
                  /\ i < Len(line) => line[i + 1] \in white
    IN  SubSeq(line, lo, hi)

FieldMatchingDocs(brandName, docs) ==
    {k \in 1..Len(docs) :
        /\ HasElements(docs[k])
        /\ ToLower(FirstField(Head(docs[k].SplProductDataElements)))
              = ToLower(brandName)}

\* every document of the response carries a valid date after the zero time
AllDatesGood(docs) ==
    \A k \in 1..Len(docs) :
        /\ ParseCompactDate(docs[k].EffectiveTime).ok
        /\ After(ParseCompactDate(docs[k].EffectiveTime).t, ZeroTime)

\* C24: a document matches the brand iff the first whitespace-delimited token
\* of its first data-element line (split on any run of spaces, tabs or
\* newlines) equals the brand name ignoring case: an answered call whose
\* documents all carry good dates resolves its brand exactly when such a
\* document is among them.
C24_FirstWhitespaceToken ==
    (Answered /\ AllDatesGood(fdaLabel.Results)) =>
        (lookupErr = "nil"
            <=> FieldMatchingDocs(fdaLabel.brandName, fdaLabel.Results) # {})

\* matching documents with a valid effective date
DatedDocs(brandName, docs) ==
    {k \in MatchingDocs(brandName, docs) :
        ParseCompactDate(docs[k].EffectiveTime).ok}

\* the answered call has matching documents, all of them validly dated
MatchedAndDated ==
    /\ Answered
    /\ MatchingDocs(fdaLabel.brandName, fdaLabel.Results) # {}
    /\ BadDateDocs(fdaLabel.brandName, fdaLabel.Results) = {}

C25_ResultKeysAreBrandsGiven ==
    /\ ~recencyResults.isNil =>
          DOMAIN recencyResults.m = {brandNames[i] : i \in 1..Len(brandNames)}
    /\ checkErr # "noRecency"

\* a pass over two different brands annotated to the end
C25_Witness ==
    /\ pc = "done"
    /\ checkErr = "nil"
    /\ ~recencyResults.isNil
    /\ Len(brandNames) = 2
    /\ brandNames[1] # brandNames[2]
    /\ pIdx > Len(products)

\* C26: every upstream lookup of a pass completes before any product is
\* annotated, and when the lookup of any brand fails the pass returns the
\* failure with every product as it was on input.
C26_LookupsBeforeAnnotation ==
    /\ pc \in {"start", "wait", "request"} => products = productsIn
    /\ products # productsIn =>
          /\ ~recencyResults.isNil
          /\ idx > Len(brandNames)
          /\ Len(callTimes) = Len(brandNames)
    /\ lookupErr # "nil" =>
          /\ products = productsIn
          /\ checkErr = "lookup"
          /\ pc = "done"

\* the lookup failed on the second brand after the first, eligible product's
\* brand was resolved to a date newer than the recorded one
C26_Witness ==
    /\ lookupErr # "nil"
    /\ idx = 2
    /\ Len(products) >= 2
    /\ Eligible(products[1])
    /\ ~products[1].FDALabelNeedsUpdate
    /\ products[1].BrandName \in DOMAIN results
    /\ Recorded(products[1]).ok
    /\ After(results[products[1].BrandName], Recorded(products[1]).t)

\* C27: the pass never clears a flag: a product flagged on input is flagged at
\* every point of the pass, whatever dates are resolved and recorded.
C27_FlagNeverCleared ==
    /\ Len(products) = Len(productsIn)
    /\ \A i \in 1..Len(products) :
          productsIn[i].FDALabelNeedsUpdate => products[i].FDALabelNeedsUpdate

\* a product flagged on input went through a completed pass in which its
\* brand resolved to a date not after the recorded one, and is still flagged
C27_Witness ==
    /\ pc = "done"
    /\ checkErr = "nil"
    /\ ~recencyResults.isNil
    /\ \E i \in 1..Len(products) :
          /\ productsIn[i].FDALabelNeedsUpdate
          /\ Eligible(products[i])
          /\ Recorded(products[i]).ok
          /\ ~After(recencyResults.m[products[i].BrandName], Recorded(products[i]).t)
          /\ products[i].FDALabelNeedsUpdate
\* main has come to the display ordering or beyond it
PastValidation == mpc \in {"order", "render", "end"} \/ rendered.called

\* every product of the collection was handed to Validate and passed
AllValidated ==
    /\ Len(verdicts) = Len(products)
    /\ \A i \in 1..Len(verdicts) : verdicts[i] = Passed
    /\ \A i \in 1..Len(products) :
          FirstViolated(products[i], wallDate, RulesInOrder(products[i]), 1) = 0

\* the reconciliation pass ran to its end without a failure
Reconciled ==
    /\ pc = "done"
    /\ checkErr = "nil"
    /\ lookupErr = "nil"
    /\ ~recencyResults.isNil
    /\ pIdx > Len(products) \/ products = <<>>

\* C21: renderIndex is reached only after the reconciliation pass succeeded
\* (or was skipped by the flag) and every product passed validation; when
\* the pass fails or a product fails validation the run halts and nothing is
\* rendered.
C21_RenderOnlyAfterChecks ==
    /\ (mpc \in {"render", "end"} \/ rendered.called) =>
          /\ skipUpdateCheck \/ Reconciled
          /\ AllValidated
    /\ checkErr # "nil" => mpc \in {"check", "exit"} /\ ~rendered.called
    /\ (\E i \in 1..Len(verdicts) : verdicts[i] # Passed) =>
          mpc = "exit" /\ ~rendered.called

\* two products rendered after a pass that flagged one of them
C21_Witness ==
    /\ rendered.called
    /\ ~skipUpdateCheck
    /\ Len(products) = 2
    /\ products # productsIn

\* C29: with the skip-update-check flag set no upstream query is issued and
\* no product is changed, yet every product is validated before rendering;
\* with the flag unset the reconciliation pass has run to its end before
\* any product is validated.
C29_SkipLeavesOutOnlyThePass ==
    /\ skipUpdateCheck =>
          /\ callTimes = <<>>
          /\ admitTimes = <<>>
          /\ fdaLabel = NoResponse
          /\ pc = "idle"
          /\ products = productsIn
    /\ PastValidation => AllValidated
    /\ (~skipUpdateCheck
          /\ (mpc \in {"validate", "validating"} \/ verdicts # <<>> \/ PastValidation))
         => Reconciled

\* with the flag set, a collection was rendered that the pass would have
\* failed on: an eligible product whose recorded date the pass cannot parse
C29_Witness ==
    /\ skipUpdateCheck
    /\ rendered.called
    /\ Len(products) = 2
    /\ \E i \in 1..Len(products) :
          /\ Eligible(products[i])
          /\ ~Recorded(products[i]).ok

\* t holds the elements of s, each as many times as s does
IsPermutation(t, s) ==
    /\ Len(t) = Len(s)
    /\ \A i \in 1..Len(s) :
          Cardinality({j \in 1..Len(t) : t[j] = s[i]})
             = Cardinality({j \in 1..Len(s) : s[j] = s[i]})

\* the products of s at the indices where the list position is zero or less
Unlisted(s) ==
    LET NotListed(p) == p.ListPosition <= 0
    IN  SelectSeq(s, NotListed)

\* t is s in display order
DisplayOrder(t, s) ==
    /\ IsPermutation(t, s)
    /\ \E k \in 0..Len(t) :
          /\ \A i \in 1..k : t[i].ListPosition > 0
          /\ \A i, j \in 1..k : i < j => t[i].ListPosition <= t[j].ListPosition
          /\ SubSeq(t, k + 1, Len(t)) = Unlisted(s)

\* C30: the display ordering of main yields a permutation of the collection
\* in which the products with a list position above 0 come first, in
\* non-decreasing list position, followed by the products with list position
\* 0 or less in their original relative order; renderIndex is given that.
C30_DisplayOrder ==
    /\ mpc \in {"render", "end"} => DisplayOrder(sortedProducts, products)
    /\ rendered.called => rendered.Products = sortedProducts
                          /\ DisplayOrder(rendered.Products, products)

\* a collection rendered after the ordering moved products: two listed ones
\* that were out of order, and two different unlisted ones around them
C30_Witness ==
    /\ rendered.called
    /\ \E i, j \in 1..Len(products) :
          /\ i < j
          /\ products[j].ListPosition > 0
          /\ products[i].ListPosition > products[j].ListPosition
    /\ \E i, j \in 1..Len(products) :
          /\ i + 1 < j
          /\ products[i].ListPosition <= 0
          /\ products[j].ListPosition <= 0
          /\ products[i] # products[j]
          /\ products[i + 1].ListPosition > 0

====
